---- MODULE Spec2Model ----
(***************************************************************************)
(* Auto Run agent duplication: the trigger evaluator                       *)
(* (shared/autoRunDuplication.ts) and the AutoRunDuplicationService        *)
(* (renderer/services/autoRunDuplication.ts): its instance registry, the   *)
(* instance-limit check of shouldDuplicate and the asynchronous            *)
(* duplicateSession with its caller-supplied creation callbacks.           *)
(*                                                                         *)
(* Encoding of optional values: an absent (undefined / null) value is the  *)
(* empty tuple <<>>, a present value x is <<x>>.                           *)
(* The registry is a JavaScript Map: a sequence of [key, value] entries in *)
(* insertion order.                                                        *)
(* The createdAt timestamps (Date.now()) of instances and tabs are not     *)
(* part of the state: no operation reads them.                             *)
(***************************************************************************)
EXTENDS Integers, Sequences, FiniteSets, TLC

\* ------------------------------------------------------------------ bounds
\* Largest batch task counter the callers pass in.
MaxTasks == 2
\* Number of duplicateSession calls a behaviour may start.
MaxCalls == 2

\* The longest trigger list of a stored or held configuration.
MaxStoreTriggers == 2

\* The largest metric value and threshold of the evaluator's inputs.
MaxMetric == 2

\* The longest task list and the largest duplicate count given to
\* distributeTasksAcrossDuplicates.
MaxRemaining == 7

MaxDuplicateCount == 5

\* -------------------------------------------------------- optional values
None == <<>>

Some(x) == <<x>>

\* JavaScript truthiness of an optional number (undefined and 0 are falsy).
TruthyNum(o) == o # None /\ o[1] # 0

\* JavaScript truthiness of an optional string (undefined and '' are falsy).
TruthyStr(o) == o # None /\ o[1] # ""

\* `x || 0` for an optional number.
OrZero(o) == IF TruthyNum(o) THEN o[1] ELSE 0

\* ------------------------------------------------------------------ types
DuplicationTriggerType ==
  {"task_count", "time_elapsed", "context_threshold", "cost_threshold",
   "document_count", "loop_iteration", "manual"}

\* A DuplicationTrigger whose threshold fields are all absent.
BaseTrigger(id, type, enabled, duplicateCount, groupDuplicates) ==
  [id |-> id, type |-> type, enabled |-> enabled,
   taskCountThreshold |-> None, timeElapsedMs |-> None,
   contextPercentage |-> None, costThreshold |-> None,
   documentCountThreshold |-> None, loopIteration |-> None,
   duplicateCount |-> duplicateCount,
   preserveContext |-> TRUE, preserveAutoRunDocs |-> TRUE,
   groupDuplicates |-> groupDuplicates,
   customGroupName |-> None, customPromptTemplate |-> None]

\* A task_count trigger.
TaskCountTrigger(id, enabled, threshold, duplicateCount, groupDuplicates) ==
  [BaseTrigger(id, "task_count", enabled, duplicateCount, groupDuplicates)
     EXCEPT !.taskCountThreshold = Some(threshold)]

\* The metrics bundle passed to the evaluator.
Metrics(tasks, elapsed, context, cost, documents, loop) ==
  [taskCount |-> tasks, elapsedTimeMs |-> elapsed,
   contextPercentage |-> context, currentCost |-> cost,
   documentCount |-> documents, loopIteration |-> loop]

\* The threshold field a trigger of its type is compared by; a manual trigger
\* has none.
ThresholdOf(trigger) ==
  CASE trigger.type = "task_count" -> trigger.taskCountThreshold
    [] trigger.type = "time_elapsed" -> trigger.timeElapsedMs
    [] trigger.type = "context_threshold" -> trigger.contextPercentage
    [] trigger.type = "cost_threshold" -> trigger.costThreshold
    [] trigger.type = "document_count" -> trigger.documentCountThreshold
    [] trigger.type = "loop_iteration" -> trigger.loopIteration
    [] OTHER -> None

\* The metric a trigger of the given type is compared with.
MetricOf(metrics, type) ==
  CASE type = "task_count" -> metrics.taskCount
    [] type = "time_elapsed" -> metrics.elapsedTimeMs
    [] type = "context_threshold" -> metrics.contextPercentage
    [] type = "cost_threshold" -> metrics.currentCost
    [] type = "document_count" -> metrics.documentCount
    [] type = "loop_iteration" -> metrics.loopIteration
    [] OTHER -> None

\* ---------------------------------------------------- the trigger evaluator
\* Math.round(ms / 1000) for a non-negative integer ms.
RoundSeconds(ms) == (ms + 500) \div 1000

EvaluateTriggerStrict(trigger, metrics) ==
  IF ThresholdOf(trigger) # None /\ MetricOf(metrics, trigger.type) # None
  THEN <<MetricOf(metrics, trigger.type)[1] > ThresholdOf(trigger)[1],
         <<"Above threshold">> >>
  ELSE <<FALSE, <<"">> >>

EvaluateTriggerAbsentAsZero(trigger, metrics) ==
  IF trigger.type = "manual" THEN <<FALSE, <<"">> >>
  ELSE <<OrZero(MetricOf(metrics, trigger.type)) >= OrZero(ThresholdOf(trigger)),
         <<"Reached threshold">> >>

EvaluateTriggerManualFires(trigger, metrics) ==
  IF trigger.type = "manual" THEN <<TRUE, <<"Manual trigger">> >>
  ELSE IF ThresholdOf(trigger) # None /\ MetricOf(metrics, trigger.type) # None
  THEN <<MetricOf(metrics, trigger.type)[1] >= ThresholdOf(trigger)[1],
         <<"Reached threshold">> >>
  ELSE <<FALSE, <<"">> >>

\* One iteration of the switch: <<shouldTrigger, reason>> for one trigger.
\* Costs are integers in units of 1e-4 USD, which toFixed(4) prints exactly.
EvaluateTrigger(trigger, metrics) ==
  CASE trigger.type = "task_count" ->
         IF trigger.taskCountThreshold # None /\ metrics.taskCount # None
         THEN <<metrics.taskCount[1] >= trigger.taskCountThreshold[1],
                <<"Task count reached threshold",
                  metrics.taskCount[1], trigger.taskCountThreshold[1]>> >>
         ELSE <<FALSE, <<"">> >>
    [] trigger.type = "time_elapsed" ->
         IF trigger.timeElapsedMs # None /\ metrics.elapsedTimeMs # None
         THEN <<metrics.elapsedTimeMs[1] >= trigger.timeElapsedMs[1],
                <<"Elapsed time reached threshold",
                  RoundSeconds(metrics.elapsedTimeMs[1]),
                  RoundSeconds(trigger.timeElapsedMs[1])>> >>
         ELSE <<FALSE, <<"">> >>
    [] trigger.type = "context_threshold" ->
         IF trigger.contextPercentage # None /\ metrics.contextPercentage # None
         THEN <<metrics.contextPercentage[1] >= trigger.contextPercentage[1],
                <<"Context usage reached threshold",
                  metrics.contextPercentage[1], trigger.contextPercentage[1]>> >>
         ELSE <<FALSE, <<"">> >>
    [] trigger.type = "cost_threshold" ->
         IF trigger.costThreshold # None /\ metrics.currentCost # None
         THEN <<metrics.currentCost[1] >= trigger.costThreshold[1],
                <<"Cost reached threshold",
                  metrics.currentCost[1], trigger.costThreshold[1]>> >>
         ELSE <<FALSE, <<"">> >>
    [] trigger.type = "document_count" ->
         IF trigger.documentCountThreshold # None /\ metrics.documentCount # None
         THEN <<metrics.documentCount[1] >= trigger.documentCountThreshold[1],
                <<"Document count reached threshold",
                  metrics.documentCount[1], trigger.documentCountThreshold[1]>> >>
         ELSE <<FALSE, <<"">> >>
    [] trigger.type = "loop_iteration" ->
         IF trigger.loopIteration # None /\ metrics.loopIteration # None
         THEN <<metrics.loopIteration[1] >= trigger.loopIteration[1],
                <<"Loop iteration reached threshold",
                  metrics.loopIteration[1], trigger.loopIteration[1]>> >>
         ELSE <<FALSE, <<"">> >>
    [] OTHER -> <<FALSE, <<"">> >>

EvaluateFromLegacyNames(triggers, metrics, k) ==
  LET hits == {j \in k..Len(triggers) :
                 triggers[j].enabled /\ EvaluateTrigger(triggers[j], metrics)[1]}
      legacy == [currentTaskCount |-> metrics.taskCount,
                 elapsedTimeMs |-> metrics.elapsedTimeMs,
                 contextPercentage |-> metrics.contextPercentage,
                 currentCost |-> metrics.currentCost,
                 documentCount |-> metrics.documentCount,
                 currentLoop |-> metrics.loopIteration]
  IN IF hits = {}
     THEN [shouldDuplicate |-> FALSE, triggeredBy |-> None,
           reason |-> <<"No triggers activated">>, metrics |-> Some(legacy)]
     ELSE LET j == CHOOSE j \in hits : \A i \in hits : j <= i
          IN [shouldDuplicate |-> TRUE, triggeredBy |-> Some(triggers[j]),
              reason |-> EvaluateTrigger(triggers[j], metrics)[2],
              metrics |-> Some(legacy)]

EvaluateFromLastWins(triggers, metrics, k) ==
  LET hits == {j \in k..Len(triggers) :
                 triggers[j].enabled /\ EvaluateTrigger(triggers[j], metrics)[1]}
  IN IF hits = {}
     THEN [shouldDuplicate |-> FALSE, triggeredBy |-> None,
           reason |-> <<"No triggers activated">>, metrics |-> Some(metrics)]
     ELSE LET j == CHOOSE j \in hits : \A i \in hits : i <= j
          IN [shouldDuplicate |-> TRUE, triggeredBy |-> Some(triggers[j]),
              reason |-> EvaluateTrigger(triggers[j], metrics)[2],
              metrics |-> Some(metrics)]

\* The for loop over config.triggers, from index k on.
RECURSIVE EvaluateFrom(_, _, _)
EvaluateFrom(triggers, metrics, k) ==
  IF k > Len(triggers)
  THEN [shouldDuplicate |-> FALSE, triggeredBy |-> None,
        reason |-> <<"No triggers activated">>, metrics |-> Some(metrics)]
  ELSE IF ~triggers[k].enabled
       THEN EvaluateFrom(triggers, metrics, k + 1)
       ELSE LET r == EvaluateTrigger(triggers[k], metrics)
            IN IF r[1]
               THEN [shouldDuplicate |-> TRUE, triggeredBy |-> Some(triggers[k]),
                     reason |-> r[2], metrics |-> Some(metrics)]
               ELSE EvaluateFrom(triggers, metrics, k + 1)

evaluateDuplicationTriggersIgnoresEnabled(config, metrics) ==
  IF Len(config.triggers) = 0
  THEN [shouldDuplicate |-> FALSE, triggeredBy |-> None,
        reason |-> <<"No duplication triggers configured">>, metrics |-> None]
  ELSE EvaluateFrom(config.triggers, metrics, 1)

evaluateDuplicationTriggersNoEmptyCheck(config, metrics) ==
  IF ~config.enabled
  THEN [shouldDuplicate |-> FALSE, triggeredBy |-> None,
        reason |-> <<"Auto Run duplication is disabled">>, metrics |-> None]
  ELSE EvaluateFrom(config.triggers, metrics, 1)

evaluateDuplicationTriggers(config, metrics) ==
  IF ~config.enabled
  THEN [shouldDuplicate |-> FALSE, triggeredBy |-> None,
        reason |-> <<"Auto Run duplication is disabled">>, metrics |-> None]
  ELSE IF Len(config.triggers) = 0
       THEN [shouldDuplicate |-> FALSE, triggeredBy |-> None,
             reason |-> <<"No duplication triggers configured">>,
             metrics |-> None]
       ELSE EvaluateFrom(config.triggers, metrics, 1)

\* ------------------------------------------------------- the Map registry
MapHas(m, k) == \E j \in 1..Len(m) : m[j].key = k

MapIndex(m, k) == CHOOSE j \in 1..Len(m) : m[j].key = k

\* Map.get: the value as an optional.
MapGet(m, k) == IF MapHas(m, k) THEN Some(m[MapIndex(m, k)].value) ELSE None

MapSetAppendAlways(m, k, v) == Append(m, [key |-> k, value |-> v])

\* Map.set: replaces the value of an existing key in place, else appends.
MapSet(m, k, v) ==
  IF MapHas(m, k)
  THEN [m EXCEPT ![MapIndex(m, k)] = [key |-> k, value |-> v]]
  ELSE Append(m, [key |-> k, value |-> v])

MapDeleteNothing(m, k) == m

MapDeleteClears(m, k) == IF MapHas(m, k) THEN <<>> ELSE m

\* Map.delete.
MapDelete(m, k) == SelectSeq(m, LAMBDA e : e.key # k)

\* Map.size.
MapSize(m) == Len(m)

\* Array.from(map.values()).
MapValues(m) == [j \in 1..Len(m) |-> m[j].value]

\* The loop of getMetrics over the instances from index k on: the number of
\* child ids they hold.
RECURSIVE TotalDuplicatesFrom(_, _)
TotalDuplicatesFrom(instances, k) ==
  IF k > Len(instances) THEN 0
  ELSE Len(instances[k].duplicatedSessionIds)
       + TotalDuplicatesFrom(instances, k + 1)

\* getMetrics().totalDuplicates
TotalDuplicates(m) == TotalDuplicatesFrom(MapValues(m), 1)

\* hasDuplicated(sessionId)
hasDuplicated(instances, sessionId) == MapHas(instances, sessionId)

\* getDuplicationInstance(sessionId)
getDuplicationInstance(instances, sessionId) == MapGet(instances, sessionId)

\* getAllInstances()
getAllInstances(instances) == MapValues(instances)

InstancesByTriggerFromOverwrites(instances, k, acc) ==
  [t \in {instances[j].triggeredBy : j \in k..Len(instances)} \cup DOMAIN acc
     |-> 1]

\* The loop of getMetrics over the instances from index k on: the record
\* that counts the instances of each trigger type, acc[type] || 0 being 0
\* for a type not counted yet.
RECURSIVE InstancesByTriggerFrom(_, _, _)
InstancesByTriggerFrom(instances, k, acc) ==
  IF k > Len(instances) THEN acc
  ELSE LET triggerType == instances[k].triggeredBy
           count == IF triggerType \in DOMAIN acc THEN acc[triggerType] ELSE 0
       IN InstancesByTriggerFrom(instances, k + 1,
                                 (triggerType :> count + 1) @@ acc)

\* getMetrics()
getMetrics(instances) ==
  [totalInstances |-> Len(MapValues(instances)),
   totalDuplicates |-> TotalDuplicatesFrom(MapValues(instances), 1),
   instancesByTrigger |->
     InstancesByTriggerFrom(MapValues(instances), 1, [t \in {} |-> 0])]

\* ------------------------------------------------------ sessions and input
ParentIds == {"s1", "s2", "s3"}

\* The source sessions the callers pass in, one per parent id: s1 and s3 have
\* a conversation tab with history, s2 has no tab, no context usage and no
\* usage statistics.
SessionById(id) ==
  [id |-> id, name |-> id, toolType |-> "claude-code",
   cwd |-> <<"cwd", id>>, projectRoot |-> <<"root", id>>,
   contextUsage |-> IF id = "s2" THEN None ELSE Some(50),
   totalCostUsd |-> IF id = "s2" THEN None ELSE Some(10000),
   autoRunFolderPath |-> IF id = "s2" THEN None ELSE Some(<<"docs", id>>),
   bookmarked |-> (id = "s1"),
   aiTabs |-> IF id = "s2" THEN <<>>
              ELSE <<[id |-> <<"tab", id>>, logs |-> <<"history">>]>>]

Sessions == {SessionById(id) : id \in ParentIds}

\* A BatchRunState with n completed tasks, one document, first loop.
BatchState(n) ==
  [completedTasksAcrossAllDocs |-> n, accumulatedElapsedMs |-> 10000,
   documents |-> <<"doc-1">>, loopIteration |-> 0]

BatchStates == {BatchState(n) : n \in 0..MaxTasks}

\* ---------------------------------------------------------- configurations
Config(enabled, triggers, maxDuplicates) ==
  [enabled |-> enabled, triggers |-> triggers, maxDuplicates |-> maxDuplicates,
   autoCreateGroup |-> None, notifyOnDuplication |-> None]

\* Spawns 3 grouped duplicates once 2 tasks are completed.
TriggerThree == TaskCountTrigger("three", TRUE, 2, 3, TRUE)

\* Spawns 2 ungrouped duplicates once 1 task is completed.
TriggerTwo == TaskCountTrigger("two", TRUE, 1, 2, FALSE)

\* Spawns 1 ungrouped duplicate once 1 task is completed.
TriggerOne == TaskCountTrigger("one", TRUE, 1, 1, FALSE)

\* A manual trigger: never fires in the evaluator, only by a direct call.
TriggerManual == BaseTrigger("manual", "manual", TRUE, 1, TRUE)

\* Configurations with a limit: 5 as in the service tests, and 2.
CappedConfigs ==
  {Config(TRUE, <<TriggerThree, TriggerTwo>>, Some(5)),
   Config(TRUE, <<TriggerOne>>, Some(2))}

Configs ==
  CappedConfigs \cup
  {Config(TRUE, <<TriggerThree, TriggerTwo>>, None),
   Config(FALSE, <<TriggerThree, TriggerTwo>>, Some(2)),
   Config(TRUE, <<>>, None)}

\* -------------------------------------------------- the configuration store
\* DEFAULT_DUPLICATION_CONFIG, as the module defines it.
DefaultConfigValue ==
  [Config(FALSE, <<>>, Some(5)) EXCEPT !.autoCreateGroup = Some(TRUE),
                                       !.notifyOnDuplication = Some(TRUE)]

\* The session ids the store is keyed by.
StoreIds == {"s1", "s2"}

\* The configuration objects: the default template, the local config of a
\* handler that runs, the config a caller holds for a session id, the object
\* the engine was constructed with and the object its getConfig returned.
\* Each object owns the array of the same address, and its triggers field is
\* the address of the array it refers to.
Addresses == {"default", "tmp", "engine", "returned"} \cup StoreIds

\* The heap after the module is loaded: only the default template exists.
InitialHeap ==
  [objects |-> [a \in Addresses |->
                  IF a = "default"
                  THEN Some([DefaultConfigValue EXCEPT !.triggers = "default"])
                  ELSE None],
   arrays |-> [a \in Addresses |-> <<>>]]

\* The configuration an object stands for: its fields, with the contents of
\* the array its triggers field refers to.
ValueAt(h, a) ==
  [h.objects[a][1] EXCEPT !.triggers = h.arrays[h.objects[a][1].triggers]]

structuredCloneShallow(h, src, dst) ==
  [h EXCEPT !.objects[dst] = h.objects[src]]

\* structuredClone(src), the copy placed at dst: a new object with a new
\* array of the same contents.
structuredClone(h, src, dst) ==
  [objects |-> [h.objects EXCEPT
                  ![dst] = Some([h.objects[src][1] EXCEPT !.triggers = dst])],
   arrays |-> [h.arrays EXCEPT ![dst] = h.arrays[h.objects[src][1].triggers]]]

\* configs[sessionId] of the object store.get returned: a new object parsed
\* from the stored value, placed at dst.
Deserialize(h, value, dst) ==
  [objects |-> [h.objects EXCEPT ![dst] = Some([value EXCEPT !.triggers = dst])],
   arrays |-> [h.arrays EXCEPT ![dst] = value.triggers]]

\* { ...src }, the copy placed at dst: a new object whose fields are those of
\* src, its triggers field referring to the array src refers to.
SpreadCopy(h, src, dst) ==
  [h EXCEPT !.objects[dst] = h.objects[src]]

\* config.triggers.push(trigger) on the object at a.
Push(h, a, trigger) ==
  [h EXCEPT !.arrays[h.objects[a][1].triggers] = Append(@, trigger)]

\* The local object of a handler that returned.
Discard(h, a) ==
  [objects |-> [h.objects EXCEPT ![a] = None],
   arrays |-> [h.arrays EXCEPT ![a] = <<>>]]

\* configs[sessionId] || structuredClone(DEFAULT_DUPLICATION_CONFIG)
ConfigOrDefault(h, configs, sessionId, dst) ==
  IF configs[sessionId] # None
  THEN Deserialize(h, configs[sessionId][1], dst)
  ELSE structuredClone(h, "default", dst)

\* Where the store throws during a handler: nowhere, in store.get, or in
\* store.set.
ThrowPoints == {"no", "get", "set"}

\* The result of a handler that succeeded, with the config or the configs
\* it returns.
Success(cfg, all) ==
  [success |-> TRUE, error |-> None, config |-> cfg, configs |-> all]

\* The result of a handler that failed.
Failure(message) ==
  [success |-> FALSE, error |-> Some(message), config |-> None, configs |-> None]

\* The catch block of a handler: error.message.
Caught == Failure("store failure")

\* What a handler leaves: its result, the stored configs and the heap.
Outcome(result, configs, h) ==
  [result |-> result, configs |-> configs, heap |-> h]

\* duplication:getConfig; the returned object is at the address sessionId.
getConfig(h, configs, sessionId, throws) ==
  IF throws = "get" THEN Outcome(Caught, configs, h)
  ELSE Outcome(Success(Some(sessionId), None), configs,
               ConfigOrDefault(h, configs, sessionId, sessionId))

\* duplication:setConfig
setConfig(h, configs, sessionId, cfg, throws) ==
  IF throws # "no" THEN Outcome(Caught, configs, h)
  ELSE Outcome(Success(None, None),
               [configs EXCEPT ![sessionId] = Some(cfg)], h)

\* duplication:addTrigger
addTrigger(h, configs, sessionId, trigger, throws) ==
  IF throws = "get" THEN Outcome(Caught, configs, h)
  ELSE LET pushed == Push(ConfigOrDefault(h, configs, sessionId, "tmp"),
                          "tmp", trigger)
       IN IF throws = "set"
          THEN Outcome(Caught, configs, Discard(pushed, "tmp"))
          ELSE Outcome(Success(None, None),
                       [configs EXCEPT
                          ![sessionId] = Some(ValueAt(pushed, "tmp"))],
                       Discard(pushed, "tmp"))

\* triggers.findIndex(t => t.id === triggerId), 1-based; -1 if there is none.
FindIndex(triggers, triggerId) ==
  IF \E j \in 1..Len(triggers) : triggers[j].id = triggerId
  THEN CHOOSE j \in 1..Len(triggers) :
         /\ triggers[j].id = triggerId
         /\ \A i \in 1..(j - 1) : triggers[i].id # triggerId
  ELSE -1

\* { ...trigger, ...updates }
Spread(trigger, updates) ==
  [f \in DOMAIN trigger \cup DOMAIN updates |->
     IF f \in DOMAIN updates THEN updates[f] ELSE trigger[f]]

updateTriggerIgnoresMissing(h, configs, sessionId, triggerId, updates, throws) ==
  IF throws = "get" THEN Outcome(Caught, configs, h)
  ELSE IF configs[sessionId] = None
  THEN Outcome(Failure("No configuration found for session"), configs, h)
  ELSE LET cfg == configs[sessionId][1]
           triggerIndex == FindIndex(cfg.triggers, triggerId)
           updated ==
             IF triggerIndex = -1 THEN cfg
             ELSE [cfg EXCEPT !.triggers[triggerIndex] = Spread(@, updates)]
       IN IF throws = "set" THEN Outcome(Caught, configs, h)
          ELSE Outcome(Success(None, None),
                       [configs EXCEPT ![sessionId] = Some(updated)], h)

\* duplication:updateTrigger
updateTrigger(h, configs, sessionId, triggerId, updates, throws) ==
  IF throws = "get" THEN Outcome(Caught, configs, h)
  ELSE IF configs[sessionId] = None
  THEN Outcome(Failure("No configuration found for session"), configs, h)
  ELSE LET cfg == configs[sessionId][1]
           triggerIndex == FindIndex(cfg.triggers, triggerId)
       IN IF triggerIndex = -1
          THEN Outcome(Failure("Trigger not found"), configs, h)
          ELSE IF throws = "set" THEN Outcome(Caught, configs, h)
          ELSE Outcome(Success(None, None),
                       [configs EXCEPT
                          ![sessionId] =
                            Some([cfg EXCEPT !.triggers[triggerIndex] =
                                               Spread(@, updates)])],
                       h)

\* duplication:removeTrigger
removeTrigger(h, configs, sessionId, triggerId, throws) ==
  IF throws = "get" THEN Outcome(Caught, configs, h)
  ELSE IF configs[sessionId] = None
  THEN Outcome(Failure("No configuration found for session"), configs, h)
  ELSE IF throws = "set" THEN Outcome(Caught, configs, h)
  ELSE Outcome(Success(None, None),
               [configs EXCEPT
                  ![sessionId] =
                    Some([@[1] EXCEPT !.triggers =
                            SelectSeq(@, LAMBDA t : t.id # triggerId)])],
               h)

\* duplication:deleteConfig
deleteConfig(h, configs, sessionId, throws) ==
  IF throws # "no" THEN Outcome(Caught, configs, h)
  ELSE Outcome(Success(None, None), [configs EXCEPT ![sessionId] = None], h)

\* duplication:getAllConfigs
getAllConfigs(h, configs, throws) ==
  IF throws = "get" THEN Outcome(Caught, configs, h)
  ELSE Outcome(Success(None, Some(configs)), configs, h)

\* duplication:clearAll
clearAll(h, configs, throws) ==
  IF throws = "set" THEN Outcome(Caught, configs, h)
  ELSE Outcome(Success(None, None), [id \in StoreIds |-> None], h)

\* ------------------------------------------------------- the service state
VARIABLES config, duplicationInstances, calls, callSerial, lastOp, store, heap

vars == <<config, duplicationInstances, calls, callSerial, lastOp, store, heap>>

\* The duplicateSession calls that can be in flight at once.
CallIds == {"c1", "c2"}

\* ------------------------------------------------------------ shouldDuplicate
GatherMetricsSwapped(batchState, session) ==
  Metrics(Some(batchState.completedTasksAcrossAllDocs),
          Some(batchState.accumulatedElapsedMs),
          Some(OrZero(session.contextUsage)),
          Some(OrZero(session.totalCostUsd)),
          Some(batchState.loopIteration),
          Some(Len(batchState.documents)))

\* The metrics shouldDuplicate gathers from the batch state and the session.
GatherMetrics(batchState, session) ==
  Metrics(Some(batchState.completedTasksAcrossAllDocs),
          Some(batchState.accumulatedElapsedMs),
          Some(OrZero(session.contextUsage)),
          Some(OrZero(session.totalCostUsd)),
          Some(Len(batchState.documents)),
          Some(batchState.loopIteration))

shouldDuplicateLimitFirst(instances, cfg, sessionId, batchState, session) ==
  IF TruthyNum(cfg.maxDuplicates) /\ MapSize(instances) >= cfg.maxDuplicates[1]
  THEN [shouldDuplicate |-> FALSE, triggeredBy |-> None,
        reason |-> <<"Maximum duplicates limit reached", cfg.maxDuplicates[1]>>,
        metrics |-> None]
  ELSE IF MapHas(instances, sessionId)
  THEN [shouldDuplicate |-> FALSE, triggeredBy |-> None,
        reason |-> <<"Session already duplicated">>, metrics |-> None]
  ELSE evaluateDuplicationTriggers(cfg, GatherMetrics(batchState, session))

shouldDuplicateCachedSize(instances, cfg, sessionId, batchState, session) ==
  IF MapHas(instances, sessionId)
  THEN [shouldDuplicate |-> FALSE, triggeredBy |-> None,
        reason |-> <<"Session already duplicated">>, metrics |-> None]
  ELSE IF TruthyNum(cfg.maxDuplicates)
          /\ MapSize(lastOp.before) >= cfg.maxDuplicates[1]
  THEN [shouldDuplicate |-> FALSE, triggeredBy |-> None,
        reason |-> <<"Maximum duplicates limit reached", cfg.maxDuplicates[1]>>,
        metrics |-> None]
  ELSE evaluateDuplicationTriggers(cfg, GatherMetrics(batchState, session))

shouldDuplicate(instances, cfg, sessionId, batchState, session) ==
  IF MapHas(instances, sessionId)
  THEN [shouldDuplicate |-> FALSE, triggeredBy |-> None,
        reason |-> <<"Session already duplicated">>, metrics |-> None]
  ELSE IF TruthyNum(cfg.maxDuplicates)
          /\ MapSize(instances) >= cfg.maxDuplicates[1]
  THEN [shouldDuplicate |-> FALSE, triggeredBy |-> None,
        reason |-> <<"Maximum duplicates limit reached", cfg.maxDuplicates[1]>>,
        metrics |-> None]
  ELSE evaluateDuplicationTriggers(cfg, GatherMetrics(batchState, session))

\* ----------------------------------------------------------- duplicateSession
\* generateId(): a fresh id, here the call serial with a tag.
generateId(serial, tag) == <<tag, serial>>

\* The result a caller-supplied onCreateSession resolves with: a fresh id for
\* the k-th session of the call, and the configuration it was given.
CreatedSession(serial, k, cfg) ==
  [id |-> <<"dup", serial, k>>, config |-> cfg]

\* The result a caller-supplied onCreateGroup resolves with.
CreatedGroup(serial, name, emoji) ==
  [id |-> <<"group", serial>>, name |-> name, emoji |-> emoji]

\* What a callback can reject with: an Error, or a value that is no Error.
Errors == {[isError |-> TRUE, message |-> "creation failed"],
           [isError |-> FALSE, message |-> ""]}

\* a || b for optional strings.
OrElse(a, b) == IF TruthyStr(a) THEN a ELSE b

\* A call slot with no call in it.
IdleCall ==
  [pc |-> "idle", serial |-> 0, params |-> None, group |-> None,
   targetGroupId |-> None, duplicatedSessions |-> <<>>, i |-> 0,
   pending |-> None, groupCalls |-> 0, sessionCalls |-> 0, result |-> None]

NewSessionConfigCopiesTabs(call) ==
  LET p == call.params[1]
      src == p.sourceSession
      trigger == p.trigger
  IN [name |-> <<src.name, "Duplicate", call.i + 1>>,
      toolType |-> src.toolType, cwd |-> src.cwd,
      projectRoot |-> src.projectRoot,
      groupId |-> call.targetGroupId,
      autoRunFolderPath |-> IF trigger.preserveAutoRunDocs
                            THEN src.autoRunFolderPath ELSE None,
      bookmarked |-> src.bookmarked,
      aiTabs |-> IF trigger.preserveContext /\ Len(src.aiTabs) > 0
                 THEN Some(<<[id |-> generateId(call.serial, <<"tab", call.i>>),
                              name |-> None, agentSessionId |-> None,
                              logs |-> src.aiTabs[1].logs, starred |-> FALSE,
                              inputValue |->
                                OrElse(p.customPrompt,
                                  OrElse(trigger.customPromptTemplate, Some(""))),
                              stagedImages |-> <<>>, state |-> "idle"]>>)
                 ELSE None]

\* newSessionConfig of loop iteration i (0-based).
NewSessionConfig(call) ==
  LET p == call.params[1]
      src == p.sourceSession
      trigger == p.trigger
  IN [name |-> <<src.name, "Duplicate", call.i + 1>>,
      toolType |-> src.toolType, cwd |-> src.cwd,
      projectRoot |-> src.projectRoot,
      groupId |-> call.targetGroupId,
      autoRunFolderPath |-> IF trigger.preserveAutoRunDocs
                            THEN src.autoRunFolderPath ELSE None,
      bookmarked |-> src.bookmarked,
      aiTabs |-> IF trigger.preserveContext /\ Len(src.aiTabs) > 0
                 THEN Some(<<[id |-> generateId(call.serial, <<"tab", call.i>>),
                              name |-> None, agentSessionId |-> None,
                              logs |-> <<>>, starred |-> FALSE,
                              inputValue |->
                                OrElse(p.customPrompt,
                                  OrElse(trigger.customPromptTemplate, Some(""))),
                              stagedImages |-> <<>>, state |-> "idle"]>>)
                 ELSE None]

\* The DuplicationInstance built after the loop.
NewInstance(call) ==
  [id |-> generateId(call.serial, "instance"),
   parentSessionId |-> call.params[1].sourceSession.id,
   duplicatedSessionIds |->
     [k \in 1..Len(call.duplicatedSessions) |-> call.duplicatedSessions[k].id],
   triggeredBy |-> call.params[1].trigger.type,
   groupId |-> call.targetGroupId]

CatchRethrows(call, error, instances) ==
  [call |-> [call EXCEPT !.pc = "rejected", !.pending = None],
   instances |-> instances]

CatchTracksPartial(call, error, instances) ==
  [call |-> [call EXCEPT !.pc = "resolved", !.pending = None,
               !.result = Some([success |-> FALSE, duplicatedSessions |-> <<>>,
                                group |-> None,
                                error |-> Some("creation failed")])],
   instances |-> IF Len(call.duplicatedSessions) > 0
                 THEN MapSet(instances, call.params[1].sourceSession.id,
                             NewInstance(call))
                 ELSE instances]

CatchReturnsPartial(call, error, instances) ==
  [call |-> [call EXCEPT !.pc = "resolved", !.pending = None,
               !.result = Some([success |-> FALSE,
                                duplicatedSessions |-> call.duplicatedSessions,
                                group |-> call.group,
                                error |-> Some(IF error.isError
                                               THEN error.message
                                               ELSE "Unknown error during duplication")])],
   instances |-> instances]

\* The catch block: the promise resolves with a failure result; the map is
\* not written.
Catch(call, error, instances) ==
  [call |-> [call EXCEPT !.pc = "resolved", !.pending = None,
               !.result = Some([success |-> FALSE, duplicatedSessions |-> <<>>,
                                group |-> None,
                                error |-> Some(IF error.isError
                                               THEN error.message
                                               ELSE "Unknown error during duplication")])],
   instances |-> instances]

\* Tracking the instance and returning success; yields the call and the map.
Commit(call, instances) ==
  [call |-> [call EXCEPT !.pc = "resolved", !.pending = None,
               !.result = Some([success |-> TRUE,
                                duplicatedSessions |-> call.duplicatedSessions,
                                group |-> call.group, error |-> None])],
   instances |-> MapSet(instances, call.params[1].sourceSession.id,
                        NewInstance(call))]

LoopHeadStopsEarly(call, instances) ==
  IF call.i + 1 < call.params[1].trigger.duplicateCount
  THEN [call |-> [call EXCEPT !.pc = "awaitSession",
                    !.pending = Some(NewSessionConfig(call)),
                    !.sessionCalls = @ + 1],
        instances |-> instances]
  ELSE Commit(call, instances)

LoopHeadOneMore(call, instances) ==
  IF call.i <= call.params[1].trigger.duplicateCount
  THEN [call |-> [call EXCEPT !.pc = "awaitSession",
                    !.pending = Some(NewSessionConfig(call)),
                    !.sessionCalls = @ + 1],
        instances |-> instances]
  ELSE Commit(call, instances)

\* The for loop from its condition up to the next await, or past its end.
LoopHead(call, instances) ==
  IF call.i < call.params[1].trigger.duplicateCount
  THEN [call |-> [call EXCEPT !.pc = "awaitSession",
                    !.pending = Some(NewSessionConfig(call)),
                    !.sessionCalls = @ + 1],
        instances |-> instances]
  ELSE Commit(call, instances)

EnterCallReserves(params, serial, instances) ==
  LET call == [IdleCall EXCEPT !.pc = "running", !.serial = serial,
                               !.params = Some(params)]
      reserved == MapSet(instances, params.sourceSession.id,
                         [id |-> generateId(serial, "instance"),
                          parentSessionId |-> params.sourceSession.id,
                          duplicatedSessionIds |-> <<>>,
                          triggeredBy |-> params.trigger.type,
                          groupId |-> None])
  IN IF params.trigger.groupDuplicates /\ ~TruthyStr(params.groupId)
     THEN [call |-> [call EXCEPT !.pc = "awaitGroup",
                       !.pending =
                         Some([name |-> OrElse(params.trigger.customGroupName,
                                 Some(<<"Auto Run - ", params.sourceSession.name>>)),
                               emoji |-> "counterclockwise-arrows"]),
                       !.groupCalls = @ + 1],
           instances |-> reserved]
     ELSE LoopHead([call EXCEPT !.targetGroupId = OrElse(params.groupId, None)],
                   reserved)

EnterCallGroupsAlways(params, serial, instances) ==
  LET call == [IdleCall EXCEPT !.pc = "running", !.serial = serial,
                               !.params = Some(params)]
  IN IF params.trigger.groupDuplicates
     THEN [call |-> [call EXCEPT !.pc = "awaitGroup",
                       !.pending =
                         Some([name |-> OrElse(params.trigger.customGroupName,
                                 Some(<<"Auto Run - ", params.sourceSession.name>>)),
                               emoji |-> "counterclockwise-arrows"]),
                       !.groupCalls = @ + 1],
           instances |-> instances]
     ELSE LoopHead([call EXCEPT !.targetGroupId = OrElse(params.groupId, None)],
                   instances)

\* duplicateSession from its entry up to its first await.
EnterCall(params, serial, instances) ==
  LET call == [IdleCall EXCEPT !.pc = "running", !.serial = serial,
                               !.params = Some(params)]
  IN IF params.trigger.groupDuplicates /\ ~TruthyStr(params.groupId)
     THEN [call |-> [call EXCEPT !.pc = "awaitGroup",
                       !.pending =
                         Some([name |-> OrElse(params.trigger.customGroupName,
                                 Some(<<"Auto Run - ", params.sourceSession.name>>)),
                               emoji |-> "counterclockwise-arrows"]),
                       !.groupCalls = @ + 1],
           instances |-> instances]
     ELSE LoopHead([call EXCEPT !.targetGroupId = OrElse(params.groupId, None)],
                   instances)

\* The continuation after onCreateGroup resolved with group g.
AfterGroup(call, g, instances) ==
  LoopHead([call EXCEPT !.group = Some(g), !.pending = None,
              !.targetGroupId = OrElse(call.params[1].groupId, Some(g.id))],
           instances)

AfterSessionTracksEach(call, s, instances) ==
  LET next == [call EXCEPT !.duplicatedSessions = Append(@, s),
                           !.pending = None, !.i = @ + 1]
  IN LoopHead(next, MapSet(instances, call.params[1].sourceSession.id,
                           NewInstance(next)))

\* The continuation after onCreateSession resolved with session s.
AfterSession(call, s, instances) ==
  LoopHead([call EXCEPT !.duplicatedSessions = Append(@, s),
              !.pending = None, !.i = @ + 1],
           instances)

\* ------------------------------------------- distributeTasksAcrossDuplicates
\* Math.ceil(a / b) for a >= 0 and b > 0.
Ceil(a, b) == (a + b - 1) \div b

\* Math.min
Min(a, b) == IF a <= b THEN a ELSE b

\* Array.slice(start, end) for 0 <= start and 0 <= end <= length.
Slice(array, start, end) ==
  IF start >= end THEN <<>> ELSE SubSeq(array, start + 1, end)

DistributeFromKeepsEmpty(remainingTasks, duplicateCount, tasksPerDuplicate, i) ==
  [k \in 1..(duplicateCount - i) |->
     Slice(remainingTasks,
           Min((i + k - 1) * tasksPerDuplicate, Len(remainingTasks)),
           Min((i + k) * tasksPerDuplicate, Len(remainingTasks)))]

\* The for loop of distributeTasksAcrossDuplicates from index i on: the
\* slices pushed, the empty ones left out.
RECURSIVE DistributeFrom(_, _, _, _)
DistributeFrom(remainingTasks, duplicateCount, tasksPerDuplicate, i) ==
  IF i >= duplicateCount THEN <<>>
  ELSE LET startIndex == i * tasksPerDuplicate
           endIndex == Min(startIndex + tasksPerDuplicate, Len(remainingTasks))
           taskSlice == Slice(remainingTasks, startIndex, endIndex)
           rest == DistributeFrom(remainingTasks, duplicateCount,
                                  tasksPerDuplicate, i + 1)
       IN IF Len(taskSlice) > 0 THEN <<taskSlice>> \o rest ELSE rest

distributeFloor(remainingTasks, duplicateCount) ==
  IF duplicateCount <= 0 \/ Len(remainingTasks) = 0 THEN <<>>
  ELSE DistributeFrom(remainingTasks, duplicateCount,
                      Len(remainingTasks) \div duplicateCount, 0)

distributeUnguardedKeepsEmpty(remainingTasks, duplicateCount) ==
  IF duplicateCount <= 0 THEN <<>>
  ELSE DistributeFromKeepsEmpty(remainingTasks, duplicateCount,
                                Ceil(Len(remainingTasks), duplicateCount), 0)

distributeTasksAcrossDuplicates(remainingTasks, duplicateCount) ==
  IF duplicateCount <= 0 \/ Len(remainingTasks) = 0 THEN <<>>
  ELSE DistributeFrom(remainingTasks, duplicateCount,
                      Ceil(Len(remainingTasks), duplicateCount), 0)

\* ------------------------------------------------------------ the operations
\* The record of the operation that ran last: its name, the parent id and
\* the call slot it concerned, its batch state argument, its result (the
\* evaluation of a shouldDuplicate; the call of a duplicateSession step, as
\* that step left it) and the registry as it was before the operation.
Op(name, sessionId, slot, batchState, result) ==
  [op |-> name, sessionId |-> sessionId, slot |-> slot,
   batchState |-> batchState, result |-> result,
   before |-> duplicationInstances]

\* new AutoRunDuplicationService(cfg)
InitWith(cfgs) ==
  /\ config \in cfgs
  /\ duplicationInstances = <<>>
  /\ calls = [c \in CallIds |-> IdleCall]
  /\ callSerial = 0
  /\ lastOp = Op("constructor", "", "", None, None)
  /\ store = [id \in StoreIds |-> None]
  /\ heap = InitialHeap

\* updateConfig(cfg)
UpdateConfig(cfg) ==
  /\ cfg # config
  /\ config' = cfg
  /\ lastOp' = Op("updateConfig", "", "", None, None)
  /\ UNCHANGED <<duplicationInstances, calls, callSerial, store, heap>>

ShouldDuplicateMarks(sessionId, batchState) ==
  LET evaluation == shouldDuplicate(duplicationInstances, config, sessionId,
                                    batchState, SessionById(sessionId))
  IN /\ lastOp' = Op("shouldDuplicate", sessionId, "", Some(batchState),
                     Some(evaluation))
     /\ duplicationInstances' =
          IF evaluation.shouldDuplicate
          THEN MapSet(duplicationInstances, sessionId,
                      [id |-> generateId(callSerial, "instance"),
                       parentSessionId |-> sessionId,
                       duplicatedSessionIds |-> <<>>,
                       triggeredBy |-> evaluation.triggeredBy[1].type,
                       groupId |-> None])
          ELSE duplicationInstances
     /\ UNCHANGED <<config, calls, callSerial, store, heap>>

\* shouldDuplicate(sessionId, batchState, session)
ShouldDuplicate(sessionId, batchState) ==
  /\ lastOp' = Op("shouldDuplicate", sessionId, "", Some(batchState),
                  Some(shouldDuplicate(duplicationInstances, config, sessionId,
                                       batchState, SessionById(sessionId))))
  /\ UNCHANGED <<config, duplicationInstances, calls, callSerial, store, heap>>

\* A step of the duplicateSession call in slot c that leaves the call as
\* r.call and the registry as r.instances: a call whose promise has settled
\* leaves its slot.
CallStep(c, name, r) ==
  /\ calls' = [calls EXCEPT
                 ![c] = IF r.call.pc \in {"resolved", "rejected"}
                        THEN IdleCall ELSE r.call]
  /\ duplicationInstances' = r.instances
  /\ lastOp' = Op(name, r.call.params[1].sourceSession.id, c, None,
                  Some(r.call))
  /\ UNCHANGED <<config, store, heap>>

\* duplicateSession(params, ...) entered in call slot c, up to its first await.
StartCall(c, params) ==
  /\ calls[c].pc = "idle"
  /\ callSerial < MaxCalls
  /\ CallStep(c, "duplicateSession",
              EnterCall(params, callSerial + 1, duplicationInstances))
  /\ callSerial' = callSerial + 1

\* A direct call of duplicateSession with any source, trigger and group id.
DuplicateSession(c, source, trigger, groupId) ==
  StartCall(c, [sourceSession |-> source, trigger |-> trigger,
                groupId |-> groupId, customPrompt |-> None])

\* The supervising loop: duplicateSession for the parent and the trigger of
\* the shouldDuplicate evaluation that just returned true.
LoopDuplicateSession(c) ==
  /\ lastOp.op = "shouldDuplicate"
  /\ lastOp.result[1].shouldDuplicate
  /\ StartCall(c, [sourceSession |-> SessionById(lastOp.sessionId),
                   trigger |-> lastOp.result[1].triggeredBy[1],
                   groupId |-> None, customPrompt |-> None])

\* The pending onCreateGroup promise resolves.
CreateGroupResolves(c) ==
  /\ calls[c].pc = "awaitGroup"
  /\ CallStep(c, "createGroupResolved",
              AfterGroup(calls[c],
                         CreatedGroup(calls[c].serial, calls[c].pending[1].name,
                                      calls[c].pending[1].emoji),
                         duplicationInstances))
  /\ UNCHANGED callSerial

\* The pending onCreateGroup promise rejects (or the callback threw).
CreateGroupRejects(c, error) ==
  /\ calls[c].pc = "awaitGroup"
  /\ CallStep(c, "createGroupRejected",
              Catch(calls[c], error, duplicationInstances))
  /\ UNCHANGED callSerial

\* The pending onCreateSession promise resolves.
CreateSessionResolves(c) ==
  /\ calls[c].pc = "awaitSession"
  /\ CallStep(c, "createSessionResolved",
              AfterSession(calls[c],
                           CreatedSession(calls[c].serial, calls[c].i + 1,
                                          calls[c].pending[1]),
                           duplicationInstances))
  /\ UNCHANGED callSerial

\* The pending onCreateSession promise rejects (or the callback threw).
CreateSessionRejects(c, error) ==
  /\ calls[c].pc = "awaitSession"
  /\ CallStep(c, "createSessionRejected",
              Catch(calls[c], error, duplicationInstances))
  /\ UNCHANGED callSerial

\* clearInstance(sessionId)
ClearInstance(sessionId) ==
  /\ duplicationInstances' = MapDelete(duplicationInstances, sessionId)
  /\ lastOp' = Op("clearInstance", sessionId, "", None, None)
  /\ UNCHANGED <<config, calls, callSerial, store, heap>>

\* clearAllInstances()
ClearAllInstances ==
  /\ duplicationInstances' = <<>>
  /\ lastOp' = Op("clearAllInstances", "", "", None, None)
  /\ UNCHANGED <<config, calls, callSerial, store, heap>>

\* The pass of resetDuplicationEligibilityBulk over its list of ids: the
\* instance of each id is deleted in turn.
RECURSIVE DeleteEach(_, _)
DeleteEach(m, ids) ==
  IF ids = <<>> THEN m
  ELSE DeleteEach(MapDelete(m, Head(ids)), Tail(ids))

\* resetDuplicationEligibilityBulk(sessionIds)
ResetDuplicationEligibilityBulk(ids) ==
  /\ duplicationInstances' = DeleteEach(duplicationInstances, ids)
  /\ lastOp' = [ids |-> ids]
                @@ Op("resetDuplicationEligibilityBulk", "", "", None, None)
  /\ UNCHANGED <<config, calls, callSerial, store, heap>>

\* A handler of the configuration store ran on an input and left the outcome
\* r: its result and the configs as they were before it are recorded.
Handled(name, sessionId, input, r) ==
  /\ store' = r.configs
  /\ heap' = r.heap
  /\ lastOp' = [storeBefore |-> store, heapBefore |-> heap, input |-> input]
                @@ Op(name, sessionId, "", None, Some(r.result))
  /\ UNCHANGED <<config, duplicationInstances, calls, callSerial>>

\* duplication:getConfig called in process: the caller keeps the object the
\* handler returned.
GetConfig(sessionId, throws) ==
  Handled("duplication:getConfig", sessionId, "",
          getConfig(heap, store, sessionId, throws))

\* duplication:getConfig called over IPC: the result is sent as a copy, the
\* object of the handler is dropped.
GetConfigOverIpc(sessionId, throws) ==
  LET r == getConfig(heap, store, sessionId, throws)
  IN Handled("duplication:getConfig", sessionId, "",
             IF r.result.success
             THEN Outcome([r.result EXCEPT
                             !.config = Some(ValueAt(r.heap, sessionId))],
                          r.configs, Discard(r.heap, sessionId))
             ELSE r)

\* duplication:setConfig
SetConfig(sessionId, cfg, throws) ==
  Handled("duplication:setConfig", sessionId, cfg,
          setConfig(heap, store, sessionId, cfg, throws))

\* duplication:addTrigger
AddTrigger(sessionId, trigger, throws) ==
  /\ store[sessionId] # None
       => Len(store[sessionId][1].triggers) < MaxStoreTriggers
  /\ Handled("duplication:addTrigger", sessionId, trigger.id,
             addTrigger(heap, store, sessionId, trigger, throws))

\* duplication:updateTrigger
UpdateTrigger(sessionId, triggerId, updates, throws) ==
  Handled("duplication:updateTrigger", sessionId, triggerId,
          updateTrigger(heap, store, sessionId, triggerId, updates, throws))

\* duplication:removeTrigger
RemoveTrigger(sessionId, triggerId, throws) ==
  Handled("duplication:removeTrigger", sessionId, triggerId,
          removeTrigger(heap, store, sessionId, triggerId, throws))

\* duplication:deleteConfig
DeleteConfig(sessionId, throws) ==
  Handled("duplication:deleteConfig", sessionId, "",
          deleteConfig(heap, store, sessionId, throws))

\* duplication:getAllConfigs
GetAllConfigs(throws) ==
  Handled("duplication:getAllConfigs", "", "", getAllConfigs(heap, store, throws))

\* duplication:clearAll
ClearAll(throws) ==
  Handled("duplication:clearAll", "", "", clearAll(heap, store, throws))

\* The caller changes the config it holds for a session id: it appends a
\* trigger, sets enabled, sets maxDuplicates.
HeldPush(sessionId, trigger) ==
  /\ heap.objects[sessionId] # None
  /\ Len(ValueAt(heap, sessionId).triggers) < MaxStoreTriggers
  /\ Handled("config.triggers.push", sessionId, trigger.id,
             Outcome(Success(None, None), store, Push(heap, sessionId, trigger)))

HeldSetEnabled(sessionId, enabled) ==
  /\ heap.objects[sessionId] # None
  /\ Handled("config.enabled =", sessionId, enabled,
             Outcome(Success(None, None), store,
                     [heap EXCEPT !.objects[sessionId][1].enabled = enabled]))

HeldSetMaxDuplicates(sessionId, maxDuplicates) ==
  /\ heap.objects[sessionId] # None
  /\ Handled("config.maxDuplicates =", sessionId, maxDuplicates,
             Outcome(Success(None, None), store,
                     [heap EXCEPT
                        !.objects[sessionId][1].maxDuplicates = maxDuplicates]))

\* The engine's getConfig(): the caller keeps the object it returns.
EngineGetConfig ==
  /\ heap' = SpreadCopy(heap, "engine", "returned")
  /\ lastOp' = Op("getConfig", "", "", None, Some(ValueAt(heap', "returned")))
  /\ UNCHANGED <<config, duplicationInstances, calls, callSerial, store>>

\* The caller changed the object getConfig() returned and left the heap h:
\* the engine's configuration is what its own object now holds.
ReturnedChanged(name, h) ==
  /\ heap.objects["returned"] # None
  /\ heap' = h
  /\ config' = ValueAt(h, "engine")
  /\ lastOp' = Op(name, "", "", None, None)
  /\ UNCHANGED <<duplicationInstances, calls, callSerial, store>>

\* returned.triggers.push(trigger)
ReturnedPush(trigger) ==
  /\ heap.objects["returned"] # None
  /\ Len(ValueAt(heap, "returned").triggers) < MaxStoreTriggers
  /\ ReturnedChanged("returned.triggers.push", Push(heap, "returned", trigger))

\* returned.triggers[0].enabled = enabled
ReturnedEditTrigger(enabled) ==
  /\ heap.objects["returned"] # None
  /\ Len(ValueAt(heap, "returned").triggers) > 0
  /\ ReturnedChanged("returned.triggers[0].enabled =",
                     [heap EXCEPT
                        !.arrays[heap.objects["returned"][1].triggers][1].enabled
                          = enabled])

\* returned.enabled = enabled
ReturnedSetEnabled(enabled) ==
  /\ heap.objects["returned"] # None
  /\ ReturnedChanged("returned.enabled =",
                     [heap EXCEPT !.objects["returned"][1].enabled = enabled])

\* The callbacks of the calls in flight settling.
Callbacks(slots) ==
  \E c \in slots :
    \/ CreateGroupResolves(c)
    \/ \E e \in Errors : CreateGroupRejects(c, e)
    \/ CreateSessionResolves(c)
    \/ \E e \in Errors : CreateSessionRejects(c, e)

\* ------------------------------------------------------- the specifications
\* Spec: the public API called directly, in any order, with up to two
\* duplicateSession calls in flight, on two parents.
ApiParents == {"s1", "s2"}

\* The trigger and explicit group id of a direct duplicateSession call: no
\* group, a group to create, and an explicit group id given for a trigger
\* that groups its duplicates.
ApiParams ==
  {<<TriggerTwo, None>>, <<TriggerManual, None>>,
   <<TriggerManual, Some("explicit-group")>>}

ApiConfigs ==
  {Config(TRUE, <<TriggerTwo>>, Some(1)),
   Config(FALSE, <<TriggerTwo>>, Some(1)),
   Config(TRUE, <<TriggerManual, TriggerOne>>, None)}

Init == InitWith(ApiConfigs)

Next ==
  \/ \E id \in ApiParents, b \in BatchStates : ShouldDuplicate(id, b)
  \/ \E c \in CallIds, id \in ApiParents, p \in ApiParams :
       DuplicateSession(c, SessionById(id), p[1], p[2])
  \/ Callbacks(CallIds)
  \/ \E id \in ApiParents : ClearInstance(id)
  \/ ClearAllInstances

Spec == Init /\ [][Next]_vars

\* SpecLoop: the supervising loop, whose ticks call duplicateSession only for
\* the parent and trigger of a shouldDuplicate that just returned true; two
\* ticks can be in flight. The configuration is fixed and sets maxDuplicates.
InitLoop == InitWith(CappedConfigs)

NextLoop ==
  \/ \E id \in ParentIds, b \in BatchStates : ShouldDuplicate(id, b)
  \/ \E c \in CallIds : LoopDuplicateSession(c)
  \/ Callbacks(CallIds)
  \/ \E id \in ParentIds : ClearInstance(id)
  \/ ClearAllInstances

SpecLoop == InitLoop /\ [][NextLoop]_vars

\* SpecSeq: the same loop, one operation after the other: a tick's
\* duplicateSession settles before the next one starts.
InitSeq == InitWith(CappedConfigs)

NextSeq ==
  \/ \E id \in ParentIds, b \in BatchStates : ShouldDuplicate(id, b)
  \/ LoopDuplicateSession("c1")
  \/ Callbacks({"c1"})
  \/ \E id \in ParentIds : ClearInstance(id)
  \/ ClearAllInstances

SpecSeq == InitSeq /\ [][NextSeq]_vars

\* SpecReset: the sequential loop with every kind of configuration (capped,
\* disabled, without triggers) and the bulk reset of lists of parent ids.
ResetConfigs ==
  CappedConfigs
  \cup {Config(FALSE, <<TriggerOne>>, Some(2)), Config(TRUE, <<>>, Some(2))}

\* The lists of ids given to a bulk reset: no id, one, two different ones,
\* and all three.
ResetLists ==
  {<<>>, <<"s1", "s2", "s3">>}
  \cup {<<a>> : a \in ParentIds}
  \cup {l \in {<<a, b>> : a \in ParentIds, b \in ParentIds} : l[1] # l[2]}

InitReset == InitWith(ResetConfigs)

NextReset ==
  \/ \E id \in ParentIds, b \in BatchStates : ShouldDuplicate(id, b)
  \/ LoopDuplicateSession("c1")
  \/ Callbacks({"c1"})
  \/ \E id \in ParentIds : ClearInstance(id)
  \/ ClearAllInstances
  \/ \E ids \in ResetLists : ResetDuplicationEligibilityBulk(ids)

SpecReset == InitReset /\ [][NextReset]_vars

\* SpecEval: evaluateDuplicationTriggers applied to configurations of up to
\* two triggers of every type, enabled or not, with and without a threshold,
\* and to metrics bundles with every field present, one absent or all absent.
\* A trigger of the given type whose own threshold field is the given one.
ThresholdTrigger(id, type, enabled, threshold) ==
  [BaseTrigger(id, type, enabled, 1, FALSE) EXCEPT
     !.taskCountThreshold = IF type = "task_count" THEN threshold ELSE None,
     !.timeElapsedMs = IF type = "time_elapsed" THEN threshold ELSE None,
     !.contextPercentage = IF type = "context_threshold" THEN threshold ELSE None,
     !.costThreshold = IF type = "cost_threshold" THEN threshold ELSE None,
     !.documentCountThreshold = IF type = "document_count" THEN threshold ELSE None,
     !.loopIteration = IF type = "loop_iteration" THEN threshold ELSE None]

\* The thresholds of the triggers: absent, or from 1 to MaxMetric.
EvalThresholds == {None} \cup {Some(t) : t \in 1..MaxMetric}

\* The triggers with the given id: the automatic ones, and the manual one.
EvalTriggers(id) ==
  {ThresholdTrigger(id, type, enabled, threshold) :
     type \in DuplicationTriggerType \ {"manual"}, enabled \in BOOLEAN,
     threshold \in EvalThresholds}
  \cup {BaseTrigger(id, "manual", enabled, 1, FALSE) : enabled \in BOOLEAN}

\* The trigger lists: none, one and two triggers.
EvalTriggerLists ==
  {<<>>}
  \cup {<<t1>> : t1 \in EvalTriggers("t1")}
  \cup {<<t1, t2>> : t1 \in EvalTriggers("t1"), t2 \in EvalTriggers("t2")}

EvalConfigs ==
  {Config(enabled, triggers, None) :
     enabled \in BOOLEAN, triggers \in EvalTriggerLists}

\* The names of the fields of a metrics bundle.
MetricFields ==
  {"taskCount", "elapsedTimeMs", "contextPercentage", "currentCost",
   "documentCount", "loopIteration"}

\* The bundle whose fields all have value v, but for the absent ones.
MetricsWithout(absent, v) ==
  Metrics(IF "taskCount" \in absent THEN None ELSE Some(v),
          IF "elapsedTimeMs" \in absent THEN None ELSE Some(v),
          IF "contextPercentage" \in absent THEN None ELSE Some(v),
          IF "currentCost" \in absent THEN None ELSE Some(v),
          IF "documentCount" \in absent THEN None ELSE Some(v),
          IF "loopIteration" \in absent THEN None ELSE Some(v))

EvalMetrics ==
  {MetricsWithout(absent, v) :
     absent \in {{}} \cup {{f} : f \in MetricFields}, v \in 0..MaxMetric}
  \cup {MetricsWithout(MetricFields, 0)}

\* evaluateDuplicationTriggers(config, metrics)
Evaluate(metrics) ==
  /\ lastOp' = [metrics |-> metrics]
                @@ Op("evaluateDuplicationTriggers", "", "", None,
                      Some(evaluateDuplicationTriggers(config, metrics)))
  /\ UNCHANGED <<config, duplicationInstances, calls, callSerial, store, heap>>

InitEval == InitWith(EvalConfigs)

NextEval == \E metrics \in EvalMetrics : Evaluate(metrics)

SpecEval == InitEval /\ [][NextEval]_vars

\* SpecDist: distributeTasksAcrossDuplicates applied to every stretch of a
\* list of MaxRemaining tasks and to the counts from -1 to MaxDuplicateCount.
\* The tasks of a batch, named by their numbers.
AllTasks == [j \in 1..MaxRemaining |-> j]

\* The tasks that remain: any stretch of the tasks, or none.
RemainingTaskLists ==
  {<<>>} \cup {SubSeq(AllTasks, a, b) : a \in 1..MaxRemaining, b \in 1..MaxRemaining}

DuplicateCounts == -1..MaxDuplicateCount

\* distributeTasksAcrossDuplicates(remainingTasks, duplicateCount)
Distribute(remainingTasks, duplicateCount) ==
  /\ lastOp' = [remainingTasks |-> remainingTasks,
                duplicateCount |-> duplicateCount]
                @@ Op("distributeTasksAcrossDuplicates", "", "", None,
                      Some(distributeTasksAcrossDuplicates(remainingTasks,
                                                           duplicateCount)))
  /\ UNCHANGED <<config, duplicationInstances, calls, callSerial, store, heap>>

InitDist == InitWith(CappedConfigs)

NextDist ==
  \E remainingTasks \in RemainingTaskLists, duplicateCount \in DuplicateCounts :
    Distribute(remainingTasks, duplicateCount)

SpecDist == InitDist /\ [][NextDist]_vars

\* SpecGather: the sequential loop on batch states that differ in each
\* counter, with one configuration per automatic trigger type, each with a
\* threshold that some of the batch states and sessions reach.
GatherBatchStates ==
  BatchStates
  \cup {[BatchState(0) EXCEPT !.accumulatedElapsedMs = 0],
        [BatchState(0) EXCEPT !.documents = <<>>],
        [BatchState(0) EXCEPT !.documents = <<"doc-1", "doc-2">>],
        [BatchState(0) EXCEPT !.loopIteration = 1]}

GatherTriggers ==
  {ThresholdTrigger("tasks", "task_count", TRUE, Some(1)),
   ThresholdTrigger("time", "time_elapsed", TRUE, Some(10000)),
   ThresholdTrigger("context", "context_threshold", TRUE, Some(50)),
   ThresholdTrigger("cost", "cost_threshold", TRUE, Some(10000)),
   ThresholdTrigger("documents", "document_count", TRUE, Some(2)),
   ThresholdTrigger("loop", "loop_iteration", TRUE, Some(1))}

GatherConfigs == {Config(TRUE, <<t>>, Some(2)) : t \in GatherTriggers}

InitGather == InitWith(GatherConfigs)

NextGather ==
  \/ \E id \in ParentIds, b \in GatherBatchStates : ShouldDuplicate(id, b)
  \/ LoopDuplicateSession("c1")
  \/ CreateSessionResolves("c1")
  \/ \E id \in ParentIds : ClearInstance(id)

SpecGather == InitGather /\ [][NextGather]_vars

\* SpecDefault: configurations obtained from the default template, in
\* process, and changed by the callers that hold them.
InitDefault == InitWith({DefaultConfigValue})

NextDefault ==
  \/ \E id \in StoreIds : GetConfig(id, "no")
  \/ \E id \in StoreIds : AddTrigger(id, TriggerOne, "no")
  \/ \E id \in StoreIds : HeldPush(id, TriggerOne)
  \/ \E id \in StoreIds : HeldSetEnabled(id, TRUE)
  \/ \E id \in StoreIds : HeldSetMaxDuplicates(id, Some(10))

SpecDefault == InitDefault /\ [][NextDefault]_vars

\* SpecStore: the handlers of the configuration store called over IPC, the
\* store throwing or not.
StoreConfigs == {DefaultConfigValue, Config(TRUE, <<TriggerOne>>, None)}

\* The trigger ids given to updateTrigger and removeTrigger: one of
\* TriggerOne, and one of no trigger.
StoreTriggerIds == {"one", "missing"}

InitStore == InitWith({DefaultConfigValue})

NextStore ==
  \/ \E id \in StoreIds, throws \in ThrowPoints : GetConfigOverIpc(id, throws)
  \/ \E id \in StoreIds, cfg \in StoreConfigs, throws \in ThrowPoints :
       SetConfig(id, cfg, throws)
  \/ \E id \in StoreIds, throws \in ThrowPoints :
       AddTrigger(id, TriggerOne, throws)
  \/ \E id \in StoreIds, triggerId \in StoreTriggerIds, throws \in ThrowPoints :
       UpdateTrigger(id, triggerId, [enabled |-> FALSE], throws)
  \/ \E id \in StoreIds, triggerId \in StoreTriggerIds, throws \in ThrowPoints :
       RemoveTrigger(id, triggerId, throws)
  \/ \E id \in StoreIds, throws \in ThrowPoints : DeleteConfig(id, throws)
  \/ \E throws \in ThrowPoints : GetAllConfigs(throws)
  \/ \E throws \in ThrowPoints : ClearAll(throws)

SpecStore == InitStore /\ [][NextStore]_vars

\* SpecCap: the sequential loop under a configuration whose maxDuplicates is
\* absent, 0, 1 or 2, and which updateConfig replaces at any time.
CapConfigs ==
  {Config(TRUE, <<TriggerTwo>>, m) : m \in {None, Some(0), Some(1), Some(2)}}

InitCap == InitWith(CapConfigs)

NextCap ==
  \/ \E id \in ParentIds, b \in BatchStates : ShouldDuplicate(id, b)
  \/ LoopDuplicateSession("c1")
  \/ CreateSessionResolves("c1")
  \/ \E e \in Errors : CreateSessionRejects("c1", e)
  \/ \E cfg \in CapConfigs : UpdateConfig(cfg)
  \/ \E id \in ParentIds : ClearInstance(id)

SpecCap == InitCap /\ [][NextCap]_vars

\* SpecCall: duplicateSession called directly, one call at a time, with
\* every combination of groupDuplicates and group id, of preserveContext and
\* preserveAutoRunDocs, and with duplicate counts 0, 1 and 2.
\* A manual trigger with the given count and flags.
CallTrigger(duplicateCount, groupDuplicates, preserveContext, preserveAutoRunDocs) ==
  [BaseTrigger("manual", "manual", TRUE, duplicateCount, groupDuplicates)
     EXCEPT !.preserveContext = preserveContext,
            !.preserveAutoRunDocs = preserveAutoRunDocs]

\* params.groupId: absent, the empty string, or the id of a group.
CallGroupIds == {None, Some(""), Some("explicit-group")}

CallParams ==
  {[source |-> SessionById("s1"), trigger |-> CallTrigger(2, g, TRUE, TRUE),
    groupId |-> gid] : g \in BOOLEAN, gid \in CallGroupIds}
  \cup
  {[source |-> SessionById(id), trigger |-> CallTrigger(1, FALSE, pc, pd),
    groupId |-> None] : id \in ApiParents, pc \in BOOLEAN, pd \in BOOLEAN}
  \cup
  {[source |-> SessionById("s2"), trigger |-> CallTrigger(0, TRUE, TRUE, TRUE),
    groupId |-> None]}

InitCall == InitWith({Config(TRUE, <<TriggerManual>>, None)})

NextCall ==
  \/ \E p \in CallParams :
       DuplicateSession("c1", p.source, p.trigger, p.groupId)
  \/ Callbacks({"c1"})
  \/ \E id \in ApiParents : ClearInstance(id)

SpecCall == InitCall /\ [][NextCall]_vars

\* SpecCallFair: the same, every creation callback that was invoked settles
\* in the end.
SpecCallFair == SpecCall /\ WF_vars(Callbacks({"c1"}))

\* SpecEngine: the engine constructed with a configuration object, its
\* getConfig() called, the returned object changed by the caller, and
\* shouldDuplicate evaluated in between.
EngineConfigs ==
  {Config(TRUE, <<TriggerOne>>, None), Config(TRUE, <<>>, None)}

\* new AutoRunDuplicationService(config): the engine keeps the object it is
\* given.
InitEngine ==
  /\ config \in EngineConfigs
  /\ duplicationInstances = <<>>
  /\ calls = [c \in CallIds |-> IdleCall]
  /\ callSerial = 0
  /\ lastOp = Op("constructor", "", "", None, None)
  /\ store = [id \in StoreIds |-> None]
  /\ heap = Deserialize(InitialHeap, config, "engine")

NextEngine ==
  \/ EngineGetConfig
  \/ \E t \in {TriggerOne, TriggerTwo} : ReturnedPush(t)
  \/ \E enabled \in BOOLEAN : ReturnedEditTrigger(enabled)
  \/ \E enabled \in BOOLEAN : ReturnedSetEnabled(enabled)
  \/ \E id \in ParentIds, b \in BatchStates : ShouldDuplicate(id, b)

SpecEngine == InitEngine /\ [][NextEngine]_vars

\* ------------------------------------------------------------------ claims
\* The last operation was a shouldDuplicate for a parent with no instance.
EvaluatedUnrecorded ==
  /\ lastOp.op = "shouldDuplicate"
  /\ ~MapHas(duplicationInstances, lastOp.sessionId)

\* What the trigger evaluator says for the last shouldDuplicate's arguments.
LastEvaluation ==
  evaluateDuplicationTriggers(config,
    GatherMetrics(lastOp.batchState[1], SessionById(lastOp.sessionId)))

\* C1: with maxDuplicates configured, shouldDuplicate for a parent with no
\* instance returns false whenever the child ids summed over all instances
\* are >= maxDuplicates.
C1_LimitCountsChildIds ==
  (/\ EvaluatedUnrecorded
   /\ config.maxDuplicates # None
   /\ TotalDuplicates(duplicationInstances) >= config.maxDuplicates[1])
  => ~lastOp.result[1].shouldDuplicate

\* C2: with a fixed configuration that sets maxDuplicates, the child ids
\* summed over all instances never exceed maxDuplicates.
C2_TotalNeverExceedsLimit ==
  config.maxDuplicates # None
  => TotalDuplicates(duplicationInstances) <= config.maxDuplicates[1]

\* C3: with maxDuplicates configured, shouldDuplicate for a parent with no
\* instance whose metrics meet a trigger's threshold returns true exactly
\* when the current children total plus that trigger's duplicateCount is
\* <= maxDuplicates.
C3_LimitCountsRequestedDuplicates ==
  (/\ EvaluatedUnrecorded
   /\ config.maxDuplicates # None
   /\ LastEvaluation.shouldDuplicate)
  => (lastOp.result[1].shouldDuplicate
      <=> TotalDuplicates(duplicationInstances)
            + LastEvaluation.triggeredBy[1].duplicateCount
          <= config.maxDuplicates[1])

\* The entries of the registry recorded for a parent.
EntriesOf(m, id) == {j \in 1..Len(m) : m[j].value.parentSessionId = id}

\* C4: at most one instance is recorded per parent session id, and it is
\* recorded under that id.
C4_OneInstancePerParent ==
  /\ \A id \in ParentIds :
       Cardinality(EntriesOf(duplicationInstances, id)) <= 1
  /\ \A j \in 1..Len(duplicationInstances) :
       duplicationInstances[j].key
         = duplicationInstances[j].value.parentSessionId

\* The last operation was the step of a duplicateSession call that tracked
\* its instance and returned success.
Committed ==
  /\ lastOp.slot # ""
  /\ lastOp.result[1].pc = "resolved"
  /\ lastOp.result[1].result[1].success

\* C4 witness: a second duplicateSession for the same source has tracked its
\* instance where the first one's instance was recorded.
C4_Witness ==
  /\ Committed
  /\ MapHas(lastOp.before, lastOp.sessionId)
  /\ Cardinality(EntriesOf(duplicationInstances, lastOp.sessionId)) = 1
  /\ MapGet(duplicationInstances, lastOp.sessionId)
       # MapGet(lastOp.before, lastOp.sessionId)

\* C5: of two supervising-loop ticks on the same parent id, at most one
\* creates child sessions: never do two calls in flight for one source
\* session both hold a created child.
C5_OneTickCreatesChildren ==
  \A c1, c2 \in CallIds :
    (/\ c1 # c2
     /\ calls[c1].pc # "idle"
     /\ calls[c2].pc # "idle"
     /\ calls[c1].params[1].sourceSession.id
          = calls[c2].params[1].sourceSession.id)
    => ~(/\ Len(calls[c1].duplicatedSessions) > 0
         /\ Len(calls[c2].duplicatedSessions) > 0)

\* The ids the caller's onCreateSession returned to the call with this
\* serial, in call order, for n calls.
ReturnedIds(call, n) ==
  [k \in 1..n |-> CreatedSession(call.serial, k, None).id]

\* C6: when duplicateSession returns success, exactly one instance is
\* recorded for the source session; it was written by that last step, after
\* all trigger.duplicateCount onCreateSession calls had resolved; its child
\* ids are the ids the callback returned, in call order; its triggeredBy is
\* the trigger's type; and the result lists the same sessions.  No call
\* still in flight has its instance in the registry.
C6_SuccessCommitsReturnedChildren ==
  /\ Committed =>
       LET call == lastOp.result[1]
           trigger == call.params[1].trigger
           instance == MapGet(duplicationInstances, lastOp.sessionId)
       IN /\ Cardinality(EntriesOf(duplicationInstances, lastOp.sessionId)) = 1
          /\ instance # None
          /\ instance[1].id = generateId(call.serial, "instance")
          /\ instance[1].duplicatedSessionIds
               = ReturnedIds(call, trigger.duplicateCount)
          /\ Len(instance[1].duplicatedSessionIds) = trigger.duplicateCount
          /\ call.sessionCalls = trigger.duplicateCount
          /\ instance[1].triggeredBy = trigger.type
          /\ [k \in 1..Len(call.result[1].duplicatedSessions) |->
                call.result[1].duplicatedSessions[k].id]
               = instance[1].duplicatedSessionIds
          /\ \A j \in 1..Len(lastOp.before) :
               lastOp.before[j].value.id # instance[1].id
  /\ \A c \in CallIds :
       calls[c].pc # "idle" =>
         \A j \in 1..Len(duplicationInstances) :
           duplicationInstances[j].value.id
             # generateId(calls[c].serial, "instance")

\* C6 witness: a call for two duplicates has returned success.
C6_Witness ==
  /\ Committed
  /\ lastOp.result[1].params[1].trigger.duplicateCount = 2
  /\ Len(MapGet(duplicationInstances, lastOp.sessionId)[1].duplicatedSessionIds)
       = 2

\* The last operation was the step of a duplicateSession call in which
\* onCreateGroup or onCreateSession failed.
CreationFailed ==
  lastOp.op \in {"createGroupRejected", "createSessionRejected"}

\* C7: a duplicateSession call in which onCreateGroup or an onCreateSession
\* fails leaves the registry as it was: no step of a call changes the
\* registry except the one that returns success.
C7_FailureLeavesRegistry ==
  /\ CreationFailed => duplicationInstances = lastOp.before
  /\ (lastOp.slot # "" /\ ~Committed) => duplicationInstances = lastOp.before

\* C7 witness: the second onCreateSession of a call failed after the first
\* child was created, with another parent's instance in the registry.
C7_Witness ==
  /\ lastOp.op = "createSessionRejected"
  /\ Len(lastOp.result[1].duplicatedSessions) = 1
  /\ Len(duplicationInstances) = 1
  /\ ~MapHas(duplicationInstances, lastOp.sessionId)

\* C8: when onCreateGroup or onCreateSession throws or rejects, the promise
\* of duplicateSession resolves with success=false and an error string.
C8_FailureResolves ==
  /\ CreationFailed =>
       /\ lastOp.result[1].pc = "resolved"
       /\ ~lastOp.result[1].result[1].success
       /\ lastOp.result[1].result[1].error
            \in {Some("creation failed"),
                 Some("Unknown error during duplication")}
  /\ lastOp.slot # "" => lastOp.result[1].pc # "rejected"

\* C8 witness: onCreateGroup rejected with a value that is no Error.
C8_Witness ==
  /\ lastOp.op = "createGroupRejected"
  /\ lastOp.result[1].result[1].error
       = Some("Unknown error during duplication")

\* C9: for a parent with a recorded instance, shouldDuplicate returns false
\* with triggeredBy null and the reason 'Session already duplicated',
\* whatever the configuration and the metrics.
C9_AlreadyDuplicatedFirst ==
  (lastOp.op = "shouldDuplicate"
   /\ MapHas(duplicationInstances, lastOp.sessionId))
  => /\ ~lastOp.result[1].shouldDuplicate
     /\ lastOp.result[1].triggeredBy = None
     /\ lastOp.result[1].reason = <<"Session already duplicated">>

\* C9 witness: shouldDuplicate for a recorded parent while the limit is
\* reached and the metrics meet the trigger's threshold.
C9_Witness ==
  /\ lastOp.op = "shouldDuplicate"
  /\ MapHas(duplicationInstances, lastOp.sessionId)
  /\ config.enabled
  /\ TruthyNum(config.maxDuplicates)
  /\ MapSize(duplicationInstances) >= config.maxDuplicates[1]
  /\ LastEvaluation.shouldDuplicate

Range(ids) == {ids[j] : j \in 1..Len(ids)}

ResetOps ==
  {"clearInstance", "clearAllInstances", "resetDuplicationEligibilityBulk"}

C13_LimitReasonStatesTotalAndMax ==
  (/\ lastOp.op = "shouldDuplicate"
   /\ lastOp.result[1].reason[1] = "Maximum duplicates limit reached")
  => lastOp.result[1].reason
       = <<"Maximum duplicates limit reached",
           TotalDuplicates(duplicationInstances), config.maxDuplicates[1]>>

\* The last operation was an evaluation of the triggers.
Evaluated == lastOp.op = "evaluateDuplicationTriggers"

\* The predicate of a trigger: it is automatic, its threshold and its metric
\* are present, and the metric is at least the threshold.
Holds(trigger, metrics) ==
  /\ trigger.type # "manual"
  /\ ThresholdOf(trigger) # None
  /\ MetricOf(metrics, trigger.type) # None
  /\ MetricOf(metrics, trigger.type)[1] >= ThresholdOf(trigger)[1]

\* The positions of the enabled triggers whose predicate holds.
Matching(cfg, metrics) ==
  {j \in 1..Len(cfg.triggers) :
     cfg.triggers[j].enabled /\ Holds(cfg.triggers[j], metrics)}

\* C14: with the configuration enabled and triggers configured, the result
\* is true iff some enabled trigger's predicate holds, triggeredBy is then
\* the first such trigger in list order, and otherwise the result is false
\* with no trigger and the reason 'No triggers activated'.
C14_FirstMatchWins ==
  (Evaluated /\ config.enabled /\ config.triggers # <<>>) =>
    LET r == lastOp.result[1]
        hits == Matching(config, lastOp.metrics)
    IN /\ r.shouldDuplicate <=> hits # {}
       /\ hits # {} =>
            r.triggeredBy
              = Some(config.triggers[CHOOSE j \in hits : \A i \in hits : j <= i])
       /\ hits = {} =>
            /\ r.triggeredBy = None
            /\ r.reason = <<"No triggers activated">>

\* Two enabled triggers of different types both hold, and the first won.
C14_Witness ==
  /\ Evaluated /\ config.enabled
  /\ Matching(config, lastOp.metrics) = {1, 2}
  /\ config.triggers[1].type # config.triggers[2].type
  /\ lastOp.result[1].triggeredBy = Some(config.triggers[1])

C16_DisabledNeverTriggers ==
  (Evaluated /\ ~config.enabled) =>
    /\ lastOp.result[1].shouldDuplicate = FALSE
    /\ lastOp.result[1].triggeredBy = None
    /\ lastOp.result[1].reason = <<"Auto Run duplication is disabled">>

\* A disabled configuration with an enabled trigger whose predicate holds
\* was evaluated.
C16_Witness ==
  /\ Evaluated /\ ~config.enabled
  /\ Matching(config, lastOp.metrics) # {}
  /\ ~lastOp.result[1].shouldDuplicate

\* C17: with enabled = true and no triggers the evaluation is false with
\* the reason 'No duplication triggers configured'.
C17_NoTriggersConfigured ==
  (Evaluated /\ config.enabled /\ config.triggers = <<>>) =>
    /\ lastOp.result[1].shouldDuplicate = FALSE
    /\ lastOp.result[1].triggeredBy = None
    /\ lastOp.result[1].reason = <<"No duplication triggers configured">>

\* An enabled configuration without triggers was evaluated on metrics with
\* every field present.
C17_Witness ==
  /\ Evaluated /\ config.enabled /\ config.triggers = <<>>
  /\ lastOp.metrics = MetricsWithout({}, MaxMetric)
  /\ ~lastOp.result[1].shouldDuplicate

\* The reasons of an evaluation.
EvaluationReasons ==
  {"Auto Run duplication is disabled", "No duplication triggers configured",
   "No triggers activated", "Task count reached threshold",
   "Elapsed time reached threshold", "Context usage reached threshold",
   "Cost reached threshold", "Document count reached threshold",
   "Loop iteration reached threshold"}

\* C18: every evaluation returns a result; a trigger whose threshold or
\* whose metric is absent is not the trigger of the result, and the triggers
\* after it are still evaluated.
C18_AbsentFieldsSkipped ==
  Evaluated =>
    LET r == lastOp.result[1]
        m == lastOp.metrics
    IN /\ r.shouldDuplicate \in BOOLEAN
       /\ r.reason[1] \in EvaluationReasons
       /\ r.shouldDuplicate <=> r.triggeredBy # None
       /\ \A j \in 1..Len(config.triggers) :
            LET t == config.triggers[j]
            IN (ThresholdOf(t) = None \/ MetricOf(m, t.type) = None)
               => /\ r.triggeredBy # Some(t)
                  /\ (/\ config.enabled /\ j < Len(config.triggers)
                       /\ j + 1 \in Matching(config, m))
                     => r.shouldDuplicate

\* The metric of the first, enabled trigger was absent, and the second
\* trigger fired.
C18_Witness ==
  /\ Evaluated /\ config.enabled /\ Len(config.triggers) = 2
  /\ config.triggers[1].enabled
  /\ config.triggers[1].type = "task_count"
  /\ ThresholdOf(config.triggers[1]) # None
  /\ lastOp.metrics.taskCount = None
  /\ lastOp.result[1].triggeredBy = Some(config.triggers[2])

\* C19: a manual trigger is never the trigger of an evaluation, and it
\* does not keep an automatic trigger after it from firing.
C19_ManualNeverMatches ==
  (Evaluated /\ config.enabled) =>
    LET r == lastOp.result[1]
    IN /\ \A j \in 1..Len(config.triggers) :
            config.triggers[j].type = "manual"
              => /\ r.triggeredBy # Some(config.triggers[j])
                 /\ (/\ j < Len(config.triggers)
                      /\ j + 1 \in Matching(config, lastOp.metrics))
                    => r.shouldDuplicate
       /\ (\A j \in 1..Len(config.triggers) :
             config.triggers[j].type = "manual")
          => ~r.shouldDuplicate

\* An enabled manual trigger came first, and the automatic trigger after it
\* fired.
C19_Witness ==
  /\ Evaluated /\ config.enabled /\ Len(config.triggers) = 2
  /\ config.triggers[1].type = "manual" /\ config.triggers[1].enabled
  /\ lastOp.result[1].triggeredBy = Some(config.triggers[2])

\* The metrics shouldDuplicate gathered for its last call.
PassedMetrics ==
  GatherMetrics(lastOp.batchState[1], SessionById(lastOp.sessionId))

\* C20 as stated: the result of every shouldDuplicate, whatever its outcome,
\* has a metrics field with exactly the six canonical fields and the values
\* passed in.
C20_MetricsOnEveryResult ==
  lastOp.op = "shouldDuplicate" =>
    /\ lastOp.result[1].metrics # None
    /\ DOMAIN lastOp.result[1].metrics[1] = MetricFields
    /\ lastOp.result[1].metrics[1] = PassedMetrics

\* The last shouldDuplicate returned before the loop over the triggers: the
\* parent was already duplicated, the limit was reached, the configuration
\* was disabled or had no triggers.
ReturnedEarly ==
  \/ MapHas(duplicationInstances, lastOp.sessionId)
  \/ /\ TruthyNum(config.maxDuplicates)
     /\ MapSize(duplicationInstances) >= config.maxDuplicates[1]
  \/ ~config.enabled
  \/ config.triggers = <<>>

\* C20, amended: the results of the loop over the triggers (triggered, no
\* trigger activated) have a metrics field with exactly the six canonical
\* fields and the values passed in, never a legacy name; the results
\* returned before the loop (already duplicated, limit reached, disabled,
\* no triggers configured) have no metrics field.
C20_MetricsOnLoopResults ==
  lastOp.op = "shouldDuplicate" =>
    LET r == lastOp.result[1]
    IN /\ ReturnedEarly <=> r.metrics = None
       /\ ~ReturnedEarly =>
            /\ r.shouldDuplicate \/ r.reason = <<"No triggers activated">>
            /\ DOMAIN r.metrics[1] = MetricFields
            /\ r.metrics[1] = PassedMetrics

\* With an instance recorded for another parent, a shouldDuplicate was
\* triggered and its result carries the metrics passed in.
C20_Witness ==
  /\ lastOp.op = "shouldDuplicate"
  /\ duplicationInstances # <<>>
  /\ lastOp.result[1].shouldDuplicate
  /\ lastOp.result[1].metrics = Some(PassedMetrics)
  /\ PassedMetrics.taskCount = Some(MaxTasks)

\* The last operation was a distribution of tasks.
Distributed == lastOp.op = "distributeTasksAcrossDuplicates"

\* The buckets from index k on, one after the other.
RECURSIVE ConcatFrom(_, _)
ConcatFrom(buckets, k) ==
  IF k > Len(buckets) THEN <<>> ELSE buckets[k] \o ConcatFrom(buckets, k + 1)

\* C21: for duplicateCount >= 1 and a non-empty task list, the buckets one
\* after the other are the input list, every bucket but the last has
\* ceil(len / duplicateCount) items and the last has between 1 and that many.
C21_BucketsPartitionInOrder ==
  (Distributed /\ lastOp.duplicateCount >= 1 /\ lastOp.remainingTasks # <<>>) =>
    LET buckets == lastOp.result[1]
        size == Ceil(Len(lastOp.remainingTasks), lastOp.duplicateCount)
    IN /\ ConcatFrom(buckets, 1) = lastOp.remainingTasks
       /\ Len(buckets) >= 1
       /\ \A k \in 1..(Len(buckets) - 1) : Len(buckets[k]) = size
       /\ Len(buckets[Len(buckets)]) \in 1..size

\* Seven tasks over three duplicates gave buckets of 3, 3 and 1 tasks.
C21_Witness ==
  /\ Distributed
  /\ lastOp.remainingTasks = AllTasks /\ Len(AllTasks) >= 7
  /\ lastOp.duplicateCount = 3
  /\ Len(lastOp.result[1]) = 3
  /\ Len(lastOp.result[1][3]) = Len(AllTasks) - 2 * Len(lastOp.result[1][1])

\* C22: distributeTasksAcrossDuplicates returns no bucket whenever
\* duplicateCount <= 0 or the task list is empty.
C22_NothingToDistribute ==
  (Distributed /\ (lastOp.duplicateCount <= 0 \/ lastOp.remainingTasks = <<>>))
    => lastOp.result[1] = <<>>

\* No task was distributed over several duplicates.
C22_Witness ==
  /\ Distributed
  /\ lastOp.remainingTasks = <<>>
  /\ lastOp.duplicateCount = MaxDuplicateCount
  /\ lastOp.result[1] = <<>>

\* C23: no bucket is empty, there are at most duplicateCount buckets, namely
\* ceil(len / ceil(len / duplicateCount)), fewer than duplicateCount whenever
\* the tasks do not reach the last bucket.
C23_NoEmptyBucket ==
  Distributed =>
    LET buckets == lastOp.result[1]
        len == Len(lastOp.remainingTasks)
        n == lastOp.duplicateCount
    IN /\ \A k \in 1..Len(buckets) : Len(buckets[k]) >= 1
       /\ (n >= 1 /\ len >= 1) =>
            /\ Len(buckets) <= n
            /\ Len(buckets) = Ceil(len, Ceil(len, n))
            /\ Len(buckets) < n <=> len <= (n - 1) * Ceil(len, n)

\* Four tasks over three duplicates gave two buckets.
C23_Witness ==
  /\ Distributed
  /\ Len(lastOp.remainingTasks) = 4
  /\ lastOp.duplicateCount = 3
  /\ Len(lastOp.result[1]) = 2

\* C25: an instance recorded for a parent stays as it is until a reset of
\* that parent: no other operation, a further duplicateSession for the same
\* source included, removes or replaces it.
C25_InstanceKeptUntilReset ==
  [][\A id \in ParentIds :
       (/\ MapHas(duplicationInstances, id)
        /\ ~(lastOp'.op = "clearInstance" /\ lastOp'.sessionId = id)
        /\ lastOp'.op # "clearAllInstances")
       => MapGet(duplicationInstances', id) = MapGet(duplicationInstances, id)]_vars

\* C26: a step of a duplicateSession call for parent P that does not commit
\* (its entry, a callback resolving before the last child, a callback
\* rejecting) leaves the result of shouldDuplicate for every other parent,
\* whatever the batch state, and the total of child ids as they were.
C26_InFlightBlocksNoOther ==
  [][(/\ lastOp'.slot # ""
      /\ ~(/\ lastOp'.result[1].pc = "resolved"
            /\ lastOp'.result[1].result[1].success))
     => /\ TotalDuplicates(duplicationInstances')
             = TotalDuplicates(duplicationInstances)
        /\ \A q \in ParentIds \ {lastOp'.sessionId}, b \in BatchStates :
             shouldDuplicate(duplicationInstances', config, q, b, SessionById(q))
               = shouldDuplicate(duplicationInstances, config, q, b,
                                 SessionById(q))]_vars

\* With a limit configured and a call for another parent in flight,
\* shouldDuplicate returned true.
C26_Witness ==
  /\ lastOp.op = "shouldDuplicate"
  /\ TruthyNum(config.maxDuplicates)
  /\ lastOp.result[1].shouldDuplicate
  /\ \E c \in CallIds :
       /\ calls[c].pc \in {"awaitGroup", "awaitSession"}
       /\ calls[c].params[1].sourceSession.id # lastOp.sessionId

\* The instance is complete: it has the type, all the children and the group
\* of a duplicateSession call of the API.
CompleteInstance(instance) ==
  \E p \in ApiParams :
    /\ instance.triggeredBy = p[1].type
    /\ Len(instance.duplicatedSessionIds) = p[1].duplicateCount
    /\ p[1].groupDuplicates => instance.groupId # None
    /\ p[2] # None => instance.groupId = p[2]

\* C27: at every await of a duplicateSession call in flight the registry
\* reads show, for its parent, no instance or a complete one, never the
\* instance of the call in flight nor a child it has created so far; every
\* instance read is complete.
C27_ReadsSeeCompleteInstances ==
  /\ \A j \in 1..Len(getAllInstances(duplicationInstances)) :
       CompleteInstance(getAllInstances(duplicationInstances)[j])
  /\ \A c \in CallIds :
       calls[c].pc # "idle" =>
         LET parent == calls[c].params[1].sourceSession.id
             read == getDuplicationInstance(duplicationInstances, parent)
         IN /\ hasDuplicated(duplicationInstances, parent) <=> read # None
            /\ read # None =>
                 /\ CompleteInstance(read[1])
                 /\ read[1].id # generateId(calls[c].serial, "instance")
                 /\ \A k \in 1..Len(calls[c].duplicatedSessions) :
                      \A i \in 1..Len(read[1].duplicatedSessionIds) :
                        read[1].duplicatedSessionIds[i]
                          # calls[c].duplicatedSessions[k].id
            /\ getMetrics(duplicationInstances).totalDuplicates
                 = TotalDuplicates(duplicationInstances)

\* A call that has created one of its two children is in flight, its parent
\* has no instance, and another parent has one.
C27_Witness ==
  \E c \in CallIds :
    /\ calls[c].pc = "awaitSession"
    /\ Len(calls[c].duplicatedSessions) = 1
    /\ ~hasDuplicated(duplicationInstances, calls[c].params[1].sourceSession.id)
    /\ duplicationInstances # <<>>

\* The parents with an instance.
Recorded == {id \in ParentIds : MapHas(duplicationInstances, id)}

\* The instance of a recorded parent.
InstanceOf(id) == MapGet(duplicationInstances, id)[1]

\* The number of child ids of the instances of the parents in ids.
RECURSIVE ChildrenOf(_)
ChildrenOf(ids) ==
  IF ids = {} THEN 0
  ELSE LET id == CHOOSE id \in ids : TRUE
       IN Len(InstanceOf(id).duplicatedSessionIds) + ChildrenOf(ids \ {id})

\* C29: getMetrics returns the number of recorded instances, the sum of
\* their child ids and, for each trigger type present and no other, the
\* number >= 1 of the instances of that type; getAllInstances returns
\* exactly the recorded instances.
C29_MetricsMatchRegistry ==
  LET m == getMetrics(duplicationInstances)
      all == getAllInstances(duplicationInstances)
      types == {InstanceOf(id).triggeredBy : id \in Recorded}
  IN /\ m.totalInstances = Cardinality(Recorded)
     /\ m.totalDuplicates = ChildrenOf(Recorded)
     /\ DOMAIN m.instancesByTrigger = types
     /\ \A t \in types :
          /\ m.instancesByTrigger[t] >= 1
          /\ m.instancesByTrigger[t]
               = Cardinality({id \in Recorded : InstanceOf(id).triggeredBy = t})
     /\ Len(all) = Cardinality(Recorded)
     /\ {all[j] : j \in 1..Len(all)} = {InstanceOf(id) : id \in Recorded}

\* Two instances of one trigger type are recorded.
C29_Witness ==
  /\ Cardinality(Recorded) = 2
  /\ getMetrics(duplicationInstances).totalInstances = 2
  /\ \E t \in DuplicationTriggerType :
       /\ DOMAIN getMetrics(duplicationInstances).instancesByTrigger = {t}
       /\ getMetrics(duplicationInstances).instancesByTrigger[t] = 2
  /\ getMetrics(duplicationInstances).totalDuplicates >= 3

\* C30: when the parent has no instance and the limit is not reached,
\* shouldDuplicate returns what the trigger evaluator returns for the
\* configuration and the metrics of the live state: the tasks completed
\* across all documents, the accumulated elapsed ms, the session's context
\* usage and total cost (0 when it has none), the number of batch documents
\* and the loop iteration.
C30_DelegatesWithLiveMetrics ==
  (/\ lastOp.op = "shouldDuplicate"
   /\ ~MapHas(duplicationInstances, lastOp.sessionId)
   /\ TruthyNum(config.maxDuplicates)
        => TotalDuplicates(duplicationInstances) < config.maxDuplicates[1])
  => LET b == lastOp.batchState[1]
         s == SessionById(lastOp.sessionId)
     IN lastOp.result[1]
          = evaluateDuplicationTriggers(config,
              [taskCount |-> Some(b.completedTasksAcrossAllDocs),
               elapsedTimeMs |-> Some(b.accumulatedElapsedMs),
               contextPercentage |->
                 Some(IF s.contextUsage = None THEN 0 ELSE s.contextUsage[1]),
               currentCost |->
                 Some(IF s.totalCostUsd = None THEN 0 ELSE s.totalCostUsd[1]),
               documentCount |-> Some(Len(b.documents)),
               loopIteration |-> Some(b.loopIteration)])

\* With one instance recorded and the limit not reached, the two documents
\* of the batch state triggered a document_count trigger for another parent.
C30_Witness ==
  /\ lastOp.op = "shouldDuplicate"
  /\ Len(duplicationInstances) = 1
  /\ ~MapHas(duplicationInstances, lastOp.sessionId)
  /\ config.triggers[1].type = "document_count"
  /\ Len(lastOp.batchState[1].documents) = 2
  /\ lastOp.batchState[1].loopIteration = 0
  /\ lastOp.result[1].shouldDuplicate

\* The changes a caller makes to the config it holds.
HeldMutations ==
  {"config.triggers.push", "config.enabled =", "config.maxDuplicates ="}

\* C24: configurations obtained by falling back to the default template
\* share no structure with each other nor with the template: whatever is
\* read, added or changed for one session id, the default template keeps its
\* value (no triggers, enabled false, maxDuplicates 5) and the config held
\* for every other session id is unchanged.
C24_FallbackConfigsIsolated ==
  [][/\ ValueAt(heap', "default") = DefaultConfigValue
     /\ Len(ValueAt(heap', "default").triggers) = 0
     /\ \A a \in StoreIds, b \in StoreIds :
          (a # b /\ lastOp'.sessionId = a /\ heap.objects[b] # None)
            => /\ heap'.objects[b] # None
               /\ ValueAt(heap', b) = ValueAt(heap, b)
     /\ \A a \in StoreIds :
          (lastOp'.op = "duplication:addTrigger" /\ lastOp'.sessionId = a
             /\ heap.objects[a] # None)
            => ValueAt(heap', a) = ValueAt(heap, a)]_vars

C24_Witness ==
  /\ lastOp.op \in HeldMutations
  /\ lastOp.sessionId = "s1"
  /\ store["s1"] = None
  /\ heap.objects["s1"] # None
  /\ heap.objects["s2"] # None
  /\ Len(ValueAt(heap, "s1").triggers) = 1
  /\ ValueAt(heap, "s1").enabled = TRUE
  /\ ValueAt(heap, "s1").maxDuplicates = Some(10)
  /\ ValueAt(heap, "s2") = DefaultConfigValue
  /\ store["s2"] = Some([DefaultConfigValue EXCEPT !.triggers = <<TriggerOne>>])
  /\ ValueAt(heap, "default") = DefaultConfigValue

\* The handlers of the configuration store.
StoreOps ==
  {"duplication:getConfig", "duplication:setConfig", "duplication:addTrigger",
   "duplication:updateTrigger", "duplication:removeTrigger",
   "duplication:deleteConfig", "duplication:getAllConfigs",
   "duplication:clearAll"}

\* C28: every handler of the configuration store returns a result; a
\* failure is a result with success false and an error string, and leaves
\* the store as it was. updateTrigger and removeTrigger for a session with no
\* stored config, and updateTrigger for a trigger id the stored config does
\* not have, return success false and leave the store unchanged.
C28_FailuresAreResults ==
  lastOp.op \in StoreOps =>
    LET r == lastOp.result[1]
        before == lastOp.storeBefore[lastOp.sessionId]
    IN /\ lastOp.result # None
       /\ r.success \in BOOLEAN
       /\ r.success = FALSE => (r.error # None /\ store = lastOp.storeBefore)
       /\ r.success = TRUE => r.error = None
       /\ (lastOp.op \in {"duplication:updateTrigger",
                           "duplication:removeTrigger"}
            /\ before = None)
            => (r.success = FALSE /\ store = lastOp.storeBefore)
       /\ (lastOp.op = "duplication:updateTrigger" /\ before # None
            /\ FindIndex(before[1].triggers, lastOp.input) = -1)
            => (r.success = FALSE /\ store = lastOp.storeBefore)

C28_Witness ==
  /\ lastOp.op = "duplication:updateTrigger"
  /\ lastOp.input = "missing"
  /\ lastOp.storeBefore[lastOp.sessionId] # None
  /\ Len(lastOp.storeBefore[lastOp.sessionId][1].triggers) > 0
  /\ lastOp.result = Some(Failure("Trigger not found"))
  /\ store = lastOp.storeBefore

\* C31: evaluation has no side effects. A shouldDuplicate call leaves the
\* registry, the configuration and the calls in flight as they were; the
\* same call repeated at once returns the result it just returned, and the
\* decision for every parent and batch state is what it was before the call.
C31_EvaluationHasNoEffect ==
  [][lastOp'.op = "shouldDuplicate"
       => /\ duplicationInstances' = duplicationInstances
          /\ config' = config
          /\ calls' = calls
          /\ lastOp'.result[1] =
               shouldDuplicate(duplicationInstances', config',
                               lastOp'.sessionId, lastOp'.batchState[1],
                               SessionById(lastOp'.sessionId))
          /\ \A id \in ApiParents, b \in BatchStates :
               shouldDuplicate(duplicationInstances', config', id, b,
                               SessionById(id))
               = shouldDuplicate(duplicationInstances, config, id, b,
                                 SessionById(id))]_vars

C31_Witness ==
  /\ lastOp.op = "shouldDuplicate"
  /\ lastOp.result[1].shouldDuplicate
  /\ lastOp.result[1].metrics # None
  /\ MapSize(duplicationInstances) > 0
  /\ \E c \in CallIds : calls[c].pc = "awaitSession"

\* C32: the limit check is skipped only when maxDuplicates is absent;
\* whenever it is present, 0 included, shouldDuplicate returns false once the
\* recorded children total has reached it.
C32_CapAppliesWheneverPresent ==
  lastOp.op = "shouldDuplicate" =>
    /\ (config.maxDuplicates # None
         /\ TotalDuplicates(lastOp.before) >= config.maxDuplicates[1])
         => ~lastOp.result[1].shouldDuplicate
    /\ config.maxDuplicates = None
         => lastOp.result[1].reason[1] # "Maximum duplicates limit reached"

\* C38: updateConfig(c) replaces the configuration and leaves the registry
\* and the calls in flight unchanged; the next shouldDuplicate applies c to
\* the registry as it is: for a parent not yet duplicated it is refused
\* whenever c.maxDuplicates is present and at or below the recorded children
\* total, removing no instance, and is decided by the triggers of c
\* otherwise.
C38_UpdateConfigAppliesToRegistry ==
  [][/\ lastOp'.op = "updateConfig"
          => /\ duplicationInstances' = duplicationInstances
             /\ calls' = calls
     /\ (lastOp.op = "updateConfig" /\ lastOp'.op = "shouldDuplicate"
          /\ ~MapHas(duplicationInstances, lastOp'.sessionId))
          => /\ duplicationInstances' = duplicationInstances
             /\ config' = config
             /\ IF config.maxDuplicates # None
                   /\ config.maxDuplicates[1] <= TotalDuplicates(duplicationInstances)
                THEN ~lastOp'.result[1].shouldDuplicate
                ELSE lastOp'.result[1] =
                       evaluateDuplicationTriggers(
                         config, GatherMetrics(lastOp'.batchState[1],
                                               SessionById(lastOp'.sessionId)))]_vars

\* The last operation was a step of a duplicateSession call.
CallStepped == lastOp.slot # ""

\* An explicit group id was supplied with the call: a non-empty string.
ExplicitGroupId(params) == params.groupId # None /\ params.groupId[1] # ""

\* The group id the children of a call are meant for: the explicit id if one
\* was supplied, else the id of the group the call created, else none.
TargetGroupOf(call) ==
  IF ExplicitGroupId(call.params[1]) THEN call.params[1].groupId
  ELSE IF call.group # None THEN Some(call.group[1].id)
  ELSE None

\* C33: a duplicateSession call has invoked onCreateGroup once if
\* trigger.groupDuplicates is set and no explicit group id was supplied, and
\* never otherwise; the group had resolved before the first onCreateSession
\* was invoked; every child configuration of the call carries the same
\* target group id (the explicit id, else the created group's id, else
\* none), and so does the instance the call records.
C33_GroupCreatedOnceBeforeChildren ==
  CallStepped =>
    LET call == lastOp.result[1]
        params == call.params[1]
    IN /\ call.groupCalls =
            IF params.trigger.groupDuplicates /\ ~ExplicitGroupId(params)
            THEN 1 ELSE 0
       /\ (call.groupCalls = 1 /\ call.sessionCalls > 0) => call.group # None
       /\ call.groupCalls = 0 => call.group = None
       /\ \A k \in 1..Len(call.duplicatedSessions) :
            call.duplicatedSessions[k].config.groupId = TargetGroupOf(call)
       /\ call.pc = "awaitSession"
            => call.pending[1].groupId = TargetGroupOf(call)
       /\ (call.pc = "resolved" /\ call.result[1].success)
            => /\ MapGet(duplicationInstances, lastOp.sessionId)[1].groupId
                    = TargetGroupOf(call)
               /\ call.result[1].group = call.group

\* C33 witness: a call that created its group and two children in it has
\* recorded its instance.
C33_Witness ==
  /\ CallStepped
  /\ lastOp.result[1].pc = "resolved"
  /\ lastOp.result[1].result[1].success
  /\ lastOp.result[1].groupCalls = 1
  /\ lastOp.result[1].sessionCalls = 2
  /\ lastOp.result[1].params[1].groupId = Some("")
  /\ MapGet(duplicationInstances, lastOp.sessionId)[1].groupId
       = Some(lastOp.result[1].group[1].id)

\* The child configurations a call has built so far: those of the sessions
\* created, and the one given to the pending onCreateSession.
ChildConfigsOf(call) ==
  {call.duplicatedSessions[k].config : k \in 1..Len(call.duplicatedSessions)}
  \cup (IF call.pc = "awaitSession" THEN {call.pending[1]} ELSE {})

\* The conversation log entries of a session's tabs.
LogEntriesOf(session) ==
  UNION {{session.aiTabs[t].logs[j] : j \in 1..Len(session.aiTabs[t].logs)} :
           t \in 1..Len(session.aiTabs)}

Awaiting == calls["c1"].pc \in {"awaitGroup", "awaitSession"}

\* The steps in which a creation callback settles.
SettleOps ==
  {"createGroupResolved", "createGroupRejected",
   "createSessionResolved", "createSessionRejected"}

\* A call has invoked onCreateSession at most trigger.duplicateCount times,
\* each one only after all earlier ones had resolved, and onCreateGroup at
\* most once.
CallbacksBounded ==
  CallStepped =>
    LET call == lastOp.result[1]
    IN /\ call.sessionCalls <= call.params[1].trigger.duplicateCount
       /\ call.groupCalls <= 1
       /\ call.sessionCalls = Len(call.duplicatedSessions)
                              + (IF call.pc = "awaitSession"
                                    \/ lastOp.op = "createSessionRejected"
                                 THEN 1 ELSE 0)
       /\ call.pc = "awaitGroup" => call.sessionCalls = 0

\* While a call waits, only the settling of its callback moves it on: any
\* other step leaves the call where it is, and the registry is written by no
\* step but a reset.
WaitsForCallback ==
  (Awaiting /\ lastOp'.op \notin SettleOps)
    => /\ calls'["c1"] = calls["c1"]
       /\ lastOp'.op = "clearInstance"
       /\ duplicationInstances'
            = MapDelete(duplicationInstances, lastOp'.sessionId)

\* The last step resolved the promise of the call with a result.
Resolved ==
  /\ CallStepped
  /\ lastOp.result[1].pc = "resolved"
  /\ lastOp.result[1].result # None
  /\ calls["c1"].pc = "idle"

\* C35: duplicateSession invokes onCreateSession at most duplicateCount
\* times, one after another, and onCreateGroup at most once; a call whose
\* callback has not settled does not resolve and writes no registry record;
\* and if every invoked callback settles, the call resolves with a result.
C35_ResolvesIffCallbacksSettle ==
  /\ []CallbacksBounded
  /\ [][WaitsForCallback]_vars
  /\ (Awaiting ~> Resolved)

\* C35 witness: a call whose second onCreateSession is pending.
C35_Witness ==
  /\ Awaiting
  /\ calls["c1"].sessionCalls = 2
  /\ Len(calls["c1"].duplicatedSessions) = 1
  /\ calls["c1"].groupCalls = 1
  /\ ~MapHas(duplicationInstances, calls["c1"].params[1].sourceSession.id)

\* C36: creation is fail-fast. When an onCreateSession call of a
\* duplicateSession fails, the call resolves at once: no further
\* onCreateSession is invoked, and the result has success false, an error
\* string, no duplicated sessions and no group, whatever children and group
\* the callbacks had created before.
C36_FailFast ==
  lastOp.op = "createSessionRejected" =>
    LET call == lastOp.result[1]
    IN /\ call.pc = "resolved"
       /\ calls[lastOp.slot] = IdleCall
       /\ call.sessionCalls = Len(call.duplicatedSessions) + 1
       /\ call.result[1].success = FALSE
       /\ call.result[1].duplicatedSessions = <<>>
       /\ call.result[1].group = None
       /\ call.result[1].error # None

\* C36 witness: the second onCreateSession of a call failed after the group
\* and the first child had been created.
C36_Witness ==
  /\ lastOp.op = "createSessionRejected"
  /\ Len(lastOp.result[1].duplicatedSessions) = 1
  /\ lastOp.result[1].group # None
  /\ lastOp.result[1].params[1].trigger.duplicateCount = 2
  /\ lastOp.result[1].sessionCalls = 2
  /\ lastOp.result[1].result[1].duplicatedSessions = <<>>

\* C37: the accounting reflects the children that exist. Whenever a
\* duplicateSession call settles, with success or with a failure, the
\* children total of the registry (getMetrics().totalDuplicates) has grown by
\* the number of child sessions onCreateSession returned to that call: none
\* of them is missing from the accounting and none recorded before is lost.
C37_AccountingMatchesCreatedChildren ==
  [][(lastOp'.slot # "" /\ lastOp'.result[1].pc = "resolved")
       => getMetrics(duplicationInstances').totalDuplicates
            = getMetrics(duplicationInstances).totalDuplicates
              + Len(lastOp'.result[1].duplicatedSessions)]_vars

\* The changes a caller makes to the object the engine's getConfig()
\* returned.
ReturnedMutations ==
  {"returned.triggers.push", "returned.triggers[0].enabled =",
   "returned.enabled ="}

\* C39: the configuration getConfig() returns is independent of the
\* engine's own: changing the returned object, its triggers list included,
\* changes neither the engine's configuration (what a later getConfig()
\* returns) nor the result of a later shouldDuplicate.
C39_ReturnedConfigIndependent ==
  [][lastOp'.op \in ReturnedMutations
       => /\ config' = config
          /\ ValueAt(heap', "engine") = ValueAt(heap, "engine")
          /\ \A id \in ParentIds, b \in BatchStates :
               shouldDuplicate(duplicationInstances', config', id, b,
                               SessionById(id))
               = shouldDuplicate(duplicationInstances, config, id, b,
                                 SessionById(id))]_vars

====
